---- MODULE Spec2Model ----
(***************************************************************************)
(* Model of the LabJack T7 firmware upgrade pipeline                       *)
(* (src/src/labjack_t7_upgrade.js): the promise chain of updateFirmware,   *)
(* the erase loop, the chunked flash primitive createFlashOperation, the   *)
(* scaled progress reporter and the reboot / re-enumeration steps.         *)
(*                                                                         *)
(* Conventions.                                                            *)
(*  - Lengths are kept in bytes (four per 32-bit word) so that the         *)
(*    division bundle.getFirmwareImage().length / 4 stays exact: a name    *)
(*    ending in 4 holds four times the JavaScript number.                  *)
(*  - A percent value is the exact rational [num, den]; JavaScript doubles *)
(*    are modelled by exact arithmetic.                                    *)
(*  - Versions are integers in units of 0.0001; header floats are in units *)
(*    of 0.00001 before toFixed(4) rounds them.                            *)
(*  - An asynchronous device call is two steps: the issue (appended to     *)
(*    trace, its index put in inFlight) and the completion callback.       *)
(***************************************************************************)
EXTENDS Integers, Sequences, FiniteSets, TLC

(***************************************************************************)
(* Bounds of the model.                                                    *)
(***************************************************************************)
MaxImageBytes == 68
MaxPolls == 2
ImgPages == 2
HdrPages == 1
MaxFlashLen == 17
MaxFlashBlock == 9

(***************************************************************************)
(* Program constants.                                                      *)
(***************************************************************************)
CHECKPOINT_ONE_PERCENT == 10
CHECKPOINT_TWO_PERCENT == 30
CHECKPOINT_THREE_PERCENT == 85
CHECKPOINT_FOUR_PERCENT == 90
CHECKPOINT_FIVE_PERCENT == 100
\* 0xFFFFFFFF, written as the 32-bit pattern it is
EXPECTED_ZEROED_MEM_VAL == -1
HEADER_SIZE == 128
HEADER_OPTIONS == 72
HEADER_CHECKSUM == 124
GETDATA_FULL_BLOCK == 8
GETDATA_OFFSET_STEP == 32
BYTES_PER_INT == 4
T7_FLASH_BLOCK_WRITE_SIZE == 8
T7_FLASH_PAGE_SIZE == 4096
T7_EFAdd_ExtFirmwareImage == 3276800
T7_EFAdd_ExtFirmwareImgInfo == 3768320
T7_HEAD_FIRST_FOUR_BYTES == "LJFX"
T7_TARGET_OLD == "T7_TARGET_OLD"
T7_TARGET == "T7_TARGET"
ALLOWED_IMAGE_INFO_DEVICE_TYPES == <<T7_TARGET_OLD, T7_TARGET>>
T7_EFkey_ExtFirmwareImage == 1611
T7_EFkey_ExtFirmwareImgInfo == 1612

(***************************************************************************)
(* Input domains.                                                          *)
(***************************************************************************)
NaN == -1
\* a flash word that is neither erased nor a word of the image
GarbageWord == 195948557
undefined == -2
null == -3
HeaderCodes == {T7_HEAD_FIRST_FOUR_BYTES, "XXXX"}
IntendedDevices == {T7_TARGET_OLD, T7_TARGET, "T7_OTHER"}
HeaderVersions5 == {102900, 102904, 103000}
FileVersions == {10290, NaN}
ImageLengths == 0..MaxImageBytes
\* lengths of files too short to hold a header
ShortLengths == {0, HEADER_OPTIONS + 4, HEADER_SIZE - 1}
HTTP_OK == 200
HTTP_NOT_FOUND == 404

\* a firmware source: a local path or an http URL, whether reading it
\* reports an error, the status of the response, and the bytes delivered
FileOf(http, err, status, length, code, dev, v5, fv) ==
    [http |-> http, err |-> err, status |-> status, length |-> length,
     headerCode |-> code, intendedDevice |-> dev, version5 |-> v5,
     nameVersion |-> fv]

GoodFile(http, status, length) ==
    FileOf(http, FALSE, status, length, T7_HEAD_FIRST_FOUR_BYTES, T7_TARGET,
           102900, 10290)

ErrorPage(length) ==
    FileOf(TRUE, FALSE, HTTP_NOT_FOUND, length, "<htm", "l><h", 0, NaN)

LocalFiles ==
    {FileOf(FALSE, FALSE, 0, HEADER_SIZE + n, code, dev, v5, fv) :
        n \in ImageLengths, code \in HeaderCodes, dev \in IntendedDevices,
        v5 \in HeaderVersions5, fv \in FileVersions}

ShortFiles == {GoodFile(FALSE, 0, n) : n \in ShortLengths}

UnreadableFiles ==
    {FileOf(http, TRUE, 0, 0, "none", "none", 0, NaN) : http \in BOOLEAN}

HttpFiles ==
    {GoodFile(TRUE, HTTP_OK, HEADER_SIZE + 32),
     ErrorPage(HEADER_SIZE - 1), ErrorPage(HEADER_SIZE + 32)}

FirmwareFiles == LocalFiles \cup ShortFiles \cup UnreadableFiles \cup HttpFiles
OldHandle == "h1"
NewHandle == "h2"
TheSerial == 470010000
OtherSerial == 470010001
\* what listAll may report: any set of the serials on the bus
EnumerationResults == SUBSET {TheSerial, OtherSerial}
TheConnectionType == "LJM_ctUSB"

NoErr == [kind |-> "none", text |-> ""]
TransportErr == [kind |-> "ljm", text |-> "LJME_TRANSPORT"]

VARIABLES
    step,        \* index into Chain of the then() whose handler runs next
    phase,       \* "start" | "busy" | "listener" | "rejected" | "done"
    chainErr,    \* rejection value travelling down the promise chain
    deferred,    \* the promise returned by updateFirmware
    bundle,      \* the DeviceFirmwareBundle
    trace,       \* everything issued to the device, driver and listener
    inFlight,    \* indices of trace whose completion callback is pending
    handles,     \* state of the two device handles
    curOffset, curScaling, shouldUpdateProgressBar,
    erase,       \* eraseFlash in progress
    flash,       \* createFlashOperation in progress
    enum,        \* waitForEnumeration in progress
    failed,      \* indices of trace whose call reported an error
    firmwareVersion, \* answer of checkNewFirmware's read, 0.00001 units
    fileSrc,     \* the firmware source and what reading it yields
    verify,      \* the device's flash and a read-back operation in progress
    cancelRequested, \* whether the caller has asked for the upgrade to stop
    globalProgressListener, \* the listener updateProgressScaled reports to
    pipes        \* overlapping updateFirmware invocations, by pipeline

vars == <<step, phase, chainErr, deferred, bundle, trace, inFlight, handles,
          curOffset, curScaling, shouldUpdateProgressBar, erase, flash, enum,
          failed, firmwareVersion, fileSrc, verify, cancelRequested, globalProgressListener, pipes>>

(***************************************************************************)
(* Small helpers.                                                          *)
(***************************************************************************)
Max(a, b) == IF a >= b THEN a ELSE b

Ceil(a, b) == (a + b - 1) \div b

\* Array.prototype.indexOf(x) != -1
Contains(arr, x) == \E i \in 1..Len(arr) : arr[i] = x

\* a range that counts from one
rangeFromOne(n) == [i \in 1..Max(n, 0) |-> i]

\* Python-like range(n): 0 .. n-1 in ascending order
range(n) == [i \in 1..Max(n, 0) |-> i - 1]

(***************************************************************************)
(* Errors: safelyReject rejects with error.retError.toString() when the    *)
(* error carries a retError and with error.toString() otherwise.           *)
(***************************************************************************)
ErrorText(e) ==
    CASE e.kind = "string" -> e.text
      [] e.kind = "ljm" -> e.text
      [] e.kind = "Error" -> "Error: " \o e.text
      [] e.kind = "TypeError" -> "TypeError: " \o e.text
      [] e.kind = "RangeError" -> "RangeError: " \o e.text
      [] e.kind = "bundle" -> "[object Object]"
      [] OTHER -> e.text

safelyReject(e) == [kind |-> "string", text |-> ErrorText(e)]

(***************************************************************************)
(* The promise chain of updateFirmware: entry k is the k-th then(); ok is  *)
(* its fulfilment handler and err its rejection handler.                   *)
(***************************************************************************)
Chain == <<
    [ok |-> "readFirmwareFile",        err |-> "none"],
    [ok |-> "injectDevice",            err |-> "readingFirmwareFile"],
    [ok |-> "checkCompatibility",      err |-> "injectDevice"],
    [ok |-> "updateProgress10",        err |-> "checkCompatibility"],
    [ok |-> "statusErasing",           err |-> "updateProgress"],
    [ok |-> "eraseImage",              err |-> "updateStatusText"],
    [ok |-> "eraseImageInformation",   err |-> "eraseImage"],
    [ok |-> "updateProgress30",        err |-> "eraseImageInformation"],
    [ok |-> "statusWriting",           err |-> "updateProgress"],
    [ok |-> "writeImage",              err |-> "updateStatusText"],
    [ok |-> "writeImageInformation",   err |-> "writeImage"],
    [ok |-> "updateProgress90",        err |-> "writeImageInformation"],
    [ok |-> "statusRestarting",        err |-> "updateProgress"],
    [ok |-> "restartAndUpgrade",       err |-> "updateStatusText"],
    [ok |-> "closeDevice",             err |-> "forceClose"],
    [ok |-> "statusWaiting",           err |-> "restartAndUpgrade"],
    [ok |-> "pauseForClose",           err |-> "updateStatusText"],
    [ok |-> "waitForEnumeration",      err |-> "pauseForClose"],
    [ok |-> "checkNewFirmware",        err |-> "waitForEnumeration"],
    [ok |-> "updateProgress100",       err |-> "checkNewFirmware"],
    [ok |-> "resolve",                 err |-> "finishingUpdate"] >>

StageIdx(name) == CHOOSE k \in 1..Len(Chain) : Chain[k].ok = name

AtStage(name) == step \in 1..Len(Chain) /\ Chain[step].ok = name

Starting(name) == AtStage(name) /\ phase = "start"

Busy(name) == AtStage(name) /\ phase = "busy"

(***************************************************************************)
(* State after construction: updateFirmware has been called with an open   *)
(* device handle and nothing has run yet.                                  *)
(***************************************************************************)
NullBundle == [headerCode |-> "null", intendedDevice |-> "null",
               imageStart |-> 0,
               containedVersion |-> NaN, rawImageInfoBytes |-> 0,
               imageBytes |-> 0, version |-> NaN, device |-> "null",
               serial |-> 0, connectionType |-> "null", loaded |-> FALSE]

IdleErase == [active |-> FALSE, pages |-> <<>>, next |-> 1, completed |-> 0,
              startAddress |-> 0, key |-> 0]

IdleFlash == [state |-> "idle", caller |-> "none", plan |-> <<>>, next |-> 1,
              completed |-> 0,
              startAddress |-> 0, length4 |-> 0, sizeInts |-> 1,
              isReadOp |-> FALSE, key |-> undefined, dataBytes |-> 0,
              memory |-> <<>>,
              ptrAddress |-> "none", flashAddress |-> "none",
              numIntsWritten |-> 0, currentAddress |-> 0, offset |-> 0]

IdleEnum == [timer |-> FALSE, polls |-> 0, results |-> <<>>]

\* no word of the flash programmed or corrupted, no read-back running
NoWords == [a \in {} |-> 0]

\* the progress listener of a single invocation; no overlapping pipelines
TheListener == 1

NoPipes == <<>>

IdleVerify == [op |-> "none", pc |-> "idle", mem |-> NoWords, dirty |-> {}, faulty |-> {}]

InitCommon ==
    /\ chainErr = NoErr
    /\ deferred = [state |-> "pending", value |-> "none"]
    /\ bundle = NullBundle
    /\ trace = <<>>
    /\ inFlight = {}
    /\ handles = [h \in {OldHandle, NewHandle} |->
                     IF h = OldHandle THEN "open" ELSE "unopened"]
    /\ curOffset = 0
    /\ curScaling = [num |-> 0, den |-> 1]
    /\ shouldUpdateProgressBar = FALSE
    /\ erase = IdleErase
    /\ enum = IdleEnum
    /\ failed = {}
    /\ firmwareVersion = undefined

InitCommonFlash ==
    /\ chainErr = NoErr
    /\ deferred = [state |-> "pending", value |-> "none"]
    /\ bundle = [NullBundle EXCEPT !.device = OldHandle]
    /\ trace = <<>>
    /\ inFlight = {}
    /\ handles = [h \in {OldHandle, NewHandle} |->
                     IF h = OldHandle THEN "open" ELSE "unopened"]
    /\ curOffset = 0
    /\ curScaling = [num |-> 0, den |-> 1]
    /\ shouldUpdateProgressBar = FALSE
    /\ erase = IdleErase
    /\ enum = IdleEnum
    /\ failed = {}
    /\ firmwareVersion = undefined

Init ==
    /\ InitCommon
    /\ fileSrc \in FirmwareFiles
    /\ verify = IdleVerify
    /\ cancelRequested = FALSE
    /\ globalProgressListener = TheListener
    /\ pipes = NoPipes
    /\ step = 1
    /\ phase = "start"
    /\ flash = IdleFlash

(***************************************************************************)
(* Promise-chain mechanics: a handler that fulfils hands over to the next  *)
(* then(); a handler that rejects or throws makes the following then()s    *)
(* run their rejection handlers.                                           *)
(***************************************************************************)
Fulfil ==
    /\ step' = step + 1
    /\ phase' = "start"
    /\ chainErr' = NoErr

RejectWith(e) ==
    /\ step' = step + 1
    /\ phase' = "rejected"
    /\ chainErr' = e

GoBusy ==
    /\ phase' = "busy"
    /\ UNCHANGED <<step, chainErr>>

progVars == <<curOffset, curScaling, shouldUpdateProgressBar>>

DevEvent(op, handle, detail) ==
    [type |-> "dev", op |-> op, handle |-> handle,
     stage |-> IF step \in 1..Len(Chain) THEN Chain[step].ok ELSE "flashOp",
     detail |-> detail]

ProgressEvent(value, src) == [type |-> "progress", value |-> value, src |-> src]

StatusEvent(text) == [type |-> "status", text |-> text]

NoDetail == [none |-> TRUE]

(***************************************************************************)
(* readFirmwareFile: read the file, parse the 128-byte header, slice the   *)
(* image and derive the version from the file name.                        *)
(***************************************************************************)
\* Number.prototype.toFixed(4) of the header float, in units of 0.0001
toFixed4(v5) == (v5 + 5) \div 10

\* the fields read from the header: [offset, size] of each read
HeaderReads ==
    {[offset |-> 0, size |-> 4], [offset |-> 4, size |-> 4],
     [offset |-> 8, size |-> 4], [offset |-> 12, size |-> 4],
     [offset |-> 16, size |-> 2], [offset |-> 18, size |-> 2],
     [offset |-> 20, size |-> 4], [offset |-> 24, size |-> 4],
     [offset |-> 28, size |-> 4], [offset |-> 32, size |-> 4],
     [offset |-> HEADER_OPTIONS, size |-> 4],
     [offset |-> 76, size |-> 4], [offset |-> 96, size |-> 4],
     [offset |-> HEADER_CHECKSUM, size |-> 4]}

\* Buffer.readUInt32BE / readUInt16BE / readFloatBE throw a RangeError when
\* the field reaches beyond the buffer
readThrows(length, offset, size) == offset + size > length

\* Buffer.slice(start, end): both ends are clamped to the buffer
slice(length, start, end) ==
    LET s == IF start > length THEN length ELSE start
        e == IF end > length THEN length ELSE end
    IN [start |-> s, end |-> Max(s, e)]

\* a parse that accepts any buffer, however short
headerThrowsNever(length) == FALSE

headerThrows(length) ==
    \E r \in HeaderReads : readThrows(length, r.offset, r.size)

ParsedBundle(f) ==
    LET info == slice(f.length, 0, HEADER_SIZE)
        image == slice(f.length, HEADER_SIZE, f.length)
    IN [NullBundle EXCEPT !.headerCode = f.headerCode,
                          !.intendedDevice = f.intendedDevice,
                          !.containedVersion = toFixed4(f.version5),
                          !.rawImageInfoBytes = info.end - info.start,
                          !.imageStart = image.start,
                          !.imageBytes = image.end - image.start,
                          !.version = f.nameVersion,
                          !.loaded = TRUE]

ReadError ==
    [kind |-> "string", text |-> "Could not read firmware file: ENOENT"]

ParseError ==
    [kind |-> "string", text |-> "Could not read image information: RangeError"]

\* parseFile(err, data); the http branch calls it as parseFile(error, body)
\* whatever the status of the response
parseFile(f) ==
    IF f.err
    THEN /\ RejectWith(ReadError)
         /\ UNCHANGED bundle
    ELSE IF headerThrows(f.length)
         THEN /\ RejectWith(ParseError)
              /\ UNCHANGED bundle
         ELSE /\ bundle' = ParsedBundle(f)
              /\ Fulfil

readFirmwareFile ==
    /\ Starting("readFirmwareFile")
    /\ parseFile(fileSrc)
    /\ UNCHANGED <<deferred, trace, inFlight, handles, progVars, erase, flash,
                   enum>>
    /\ UNCHANGED <<failed, firmwareVersion, fileSrc, verify, cancelRequested, globalProgressListener, pipes>>

(***************************************************************************)
(* injectDevice: read the serial number synchronously, then store the      *)
(* device in the bundle (also when the read threw).                        *)
(***************************************************************************)
injectDevice ==
    /\ Starting("injectDevice")
    /\ trace' = Append(trace, DevEvent("readSync", OldHandle, NoDetail))
    /\ \/ /\ bundle' = [bundle EXCEPT !.serial = TheSerial,
                                      !.connectionType = TheConnectionType,
                                      !.device = OldHandle]
          /\ Fulfil
          /\ UNCHANGED failed
       \/ /\ bundle' = [bundle EXCEPT !.device = OldHandle]
          /\ failed' = failed \cup {Len(trace) + 1}
          /\ RejectWith(safelyReject(TransportErr))
    /\ UNCHANGED <<deferred, inFlight, handles, progVars, erase, flash, enum>>
    /\ UNCHANGED <<firmwareVersion, fileSrc, verify, cancelRequested, globalProgressListener, pipes>>

(***************************************************************************)
(* checkCompatibility: the three predicates and the error chosen.          *)
(***************************************************************************)
\* a comparison of the header version with itself
versionCorrectSelf(b) == b.containedVersion = b.containedVersion

\* imageInformation.containedVersion == firmwareVersion: a four-decimal
\* string against Number(versionStr)/10000; NaN equals nothing.
versionCorrect(b) == b.version # NaN /\ b.containedVersion = b.version

headerCodeCorrect(b) == b.headerCode = T7_HEAD_FIRST_FOUR_BYTES

intendedDeviceCorrect(b) ==
    Contains(ALLOWED_IMAGE_INFO_DEVICE_TYPES, b.intendedDevice)

\* the three predicates joined by || instead of &&
checkCompatibilityAny(b) ==
    IF headerCodeCorrect(b) \/ intendedDeviceCorrect(b) \/ versionCorrect(b)
    THEN NoErr
    ELSE [kind |-> "Error", text |-> "Invalid header code."]

\* the device type tested before the header code
checkCompatibilityDeviceFirst(b) ==
    IF headerCodeCorrect(b) /\ intendedDeviceCorrect(b) /\ versionCorrect(b)
    THEN NoErr
    ELSE IF ~intendedDeviceCorrect(b)
         THEN [kind |-> "Error", text |-> "Incorrect device type."]
         ELSE IF ~headerCodeCorrect(b)
              THEN [kind |-> "Error", text |-> "Invalid header code."]
              ELSE [kind |-> "Error", text |-> "Incorrect version."]

checkCompatibilityResult(b) ==
    IF headerCodeCorrect(b) /\ intendedDeviceCorrect(b) /\ versionCorrect(b)
    THEN NoErr
    ELSE IF ~headerCodeCorrect(b)
         THEN [kind |-> "Error", text |-> "Invalid header code."]
         ELSE IF ~intendedDeviceCorrect(b)
              THEN [kind |-> "Error", text |-> "Incorrect device type."]
              ELSE [kind |-> "Error", text |-> "Incorrect version."]

checkCompatibility ==
    /\ Starting("checkCompatibility")
    /\ IF checkCompatibilityResult(bundle) = NoErr
       THEN Fulfil
       ELSE RejectWith(checkCompatibilityResult(bundle))
    /\ UNCHANGED <<deferred, bundle, trace, inFlight, handles, progVars,
                   erase, flash, enum>>
    /\ UNCHANGED <<failed, firmwareVersion, fileSrc, verify, cancelRequested, globalProgressListener, pipes>>

(***************************************************************************)
(* updateProgress(value) and updateStatusText(text): call the listener and *)
(* wait for it to invoke the completion callback.                          *)
(***************************************************************************)
\* the checkpoints handed out one step early
CheckpointOfShifted(name) ==
    CASE name = "updateProgress10" -> CHECKPOINT_TWO_PERCENT
      [] name = "updateProgress30" -> CHECKPOINT_FOUR_PERCENT
      [] name = "updateProgress90" -> CHECKPOINT_FIVE_PERCENT
      [] name = "updateProgress100" -> CHECKPOINT_FIVE_PERCENT

CheckpointOf(name) ==
    CASE name = "updateProgress10" -> CHECKPOINT_ONE_PERCENT
      [] name = "updateProgress30" -> CHECKPOINT_TWO_PERCENT
      [] name = "updateProgress90" -> CHECKPOINT_FOUR_PERCENT
      [] name = "updateProgress100" -> CHECKPOINT_FIVE_PERCENT

StatusTextOf(name) ==
    CASE name = "statusErasing" -> "Erasing image..."
      [] name = "statusWriting" -> "Writing image..."
      [] name = "statusRestarting" -> "Restarting..."
      [] name = "statusWaiting" -> "<br>Waiting for device(s)..."

ProgressStages == {"updateProgress10", "updateProgress30", "updateProgress90",
                   "updateProgress100"}

StatusStages == {"statusErasing", "statusWriting", "statusRestarting",
                 "statusWaiting"}

\* updateProgress resolving without waiting for the listener's callback
updateProgressNoWait ==
    /\ \E name \in ProgressStages :
         /\ Starting(name)
         /\ trace' = Append(trace,
                ProgressEvent([num |-> CheckpointOf(name), den |-> 1],
                              "checkpoint"))
    /\ Fulfil
    /\ UNCHANGED <<deferred, bundle, inFlight, handles, progVars, erase,
                   flash, enum>>
    /\ UNCHANGED <<failed, firmwareVersion, fileSrc, verify, cancelRequested, globalProgressListener, pipes>>

updateProgress ==
    /\ \E name \in ProgressStages :
         /\ Starting(name)
         /\ trace' = Append(trace,
                ProgressEvent([num |-> CheckpointOf(name), den |-> 1],
                              "checkpoint"))
    /\ phase' = "listener"
    /\ UNCHANGED <<step, chainErr, deferred, bundle, inFlight, handles,
                   progVars, erase, flash, enum>>
    /\ UNCHANGED <<failed, firmwareVersion, fileSrc, verify, cancelRequested, globalProgressListener, pipes>>

updateStatusText ==
    /\ \E name \in StatusStages :
         /\ Starting(name)
         /\ trace' = Append(trace, StatusEvent(StatusTextOf(name)))
    /\ phase' = "listener"
    /\ UNCHANGED <<step, chainErr, deferred, bundle, inFlight, handles,
                   progVars, erase, flash, enum>>
    /\ UNCHANGED <<failed, firmwareVersion, fileSrc, verify, cancelRequested, globalProgressListener, pipes>>

\* the listener invokes the callback it was given
ListenerDone ==
    /\ phase = "listener"
    /\ Fulfil
    /\ UNCHANGED <<deferred, bundle, trace, inFlight, handles, progVars,
                   erase, flash, enum>>
    /\ UNCHANGED <<failed, firmwareVersion, fileSrc, verify, cancelRequested, globalProgressListener, pipes>>

(***************************************************************************)
(* Rejection handlers of the chain.  reportError(message) rejects the      *)
(* outer deferred (unless message is 'finishingUpdate') and rethrows;      *)
(* forceClose dereferences its hoisted, still undefined, variable device   *)
(* in its first statement and so throws before it can close anything.      *)
(***************************************************************************)
ForceCloseThrows ==
    [kind |-> "TypeError",
     text |-> "Cannot read property 'handle' of undefined"]

\* q: a deferred is settled once; later resolve / reject calls are ignored
Settle(d, state, value) ==
    IF d.state = "pending" THEN [state |-> state, value |-> value] ELSE d

reportError(message, d, error) ==
    IF message # "finishingUpdate"
    THEN Settle(d, "rejected", ErrorText(error))
    ELSE d

\* a forceClose that reaches device.close
forceCloseCloses(h, b) ==
    [x \in DOMAIN h |-> IF x = b.device THEN "closed" ELSE h[x]]

\* the handles after forceClose(bundle): it throws at its first statement,
\* before device.close
forceClose(h, b) == h

RejectionHandler ==
    /\ phase = "rejected"
    /\ step \in 2..Len(Chain)
    /\ IF Chain[step].err = "forceClose"
       THEN /\ chainErr' = ForceCloseThrows
            /\ handles' = forceClose(handles, bundle)
            /\ UNCHANGED deferred
       ELSE /\ deferred' = reportError(Chain[step].err, deferred, chainErr)
            /\ chainErr' = chainErr
            /\ UNCHANGED handles
    /\ step' = step + 1
    /\ phase' = IF step = Len(Chain) THEN "done" ELSE "rejected"
    /\ UNCHANGED <<bundle, trace, inFlight, progVars, erase, flash, enum>>
    /\ UNCHANGED <<failed, firmwareVersion, fileSrc, verify, cancelRequested, globalProgressListener, pipes>>

\* the last then(): deferred.resolve(bundle)
resolve ==
    /\ Starting("resolve")
    /\ deferred' = Settle(deferred, "resolved", bundle.device)
    /\ step' = step + 1
    /\ phase' = "done"
    /\ UNCHANGED <<chainErr, bundle, trace, inFlight, handles, progVars,
                   erase, flash, enum>>
    /\ UNCHANGED <<failed, firmwareVersion, fileSrc, verify, cancelRequested, globalProgressListener, pipes>>

(***************************************************************************)
(* eraseFlash: async.eachSeries over range(numPages), one writeMany of     *)
(* (key, startAddress + page * pageSize) per page.                         *)
(***************************************************************************)
EraseRegion(name) ==
    IF name = "eraseImage"
    THEN [startAddress |-> T7_EFAdd_ExtFirmwareImage, numPages |-> ImgPages,
          key |-> T7_EFkey_ExtFirmwareImage]
    ELSE [startAddress |-> T7_EFAdd_ExtFirmwareImgInfo, numPages |-> HdrPages,
          key |-> T7_EFkey_ExtFirmwareImgInfo]

EraseStages == {"eraseImage", "eraseImageInformation"}

EraseFrame(key, startAddress, page) ==
    [addresses |-> <<"T7_MA_EXF_KEY", "T7_MA_EXF_ERASE">>,
     values |-> <<key, startAddress + page * T7_FLASH_PAGE_SIZE>>]

\* async.each instead of async.eachSeries: every page issued at once
EraseMayIssueParallel(pending) == TRUE

\* eachSeries calls the iterator for the next page only from the callback
\* of the previous one
EraseMayIssue(pending) == pending = {}

eraseFlashStart ==
    /\ \E name \in EraseStages :
         /\ Starting(name)
         /\ LET r == EraseRegion(name) IN
              IF r.numPages <= 0
              THEN /\ Fulfil
                   /\ UNCHANGED erase
              ELSE /\ GoBusy
                   /\ erase' = [active |-> TRUE, pages |-> range(r.numPages),
                                next |-> 1, completed |-> 0,
                                startAddress |-> r.startAddress,
                                key |-> r.key]
    /\ UNCHANGED <<deferred, bundle, trace, inFlight, handles, progVars,
                   flash, enum>>
    /\ UNCHANGED <<failed, firmwareVersion, fileSrc, verify, cancelRequested, globalProgressListener, pipes>>

eraseFlashIssue ==
    /\ phase = "busy"
    /\ erase.active
    /\ erase.next <= Len(erase.pages)
    /\ EraseMayIssue(inFlight)
    /\ trace' = Append(trace, DevEvent("writeMany", bundle.device,
                    EraseFrame(erase.key, erase.startAddress,
                               erase.pages[erase.next])))
    /\ inFlight' = inFlight \cup {Len(trace) + 1}
    /\ erase' = [erase EXCEPT !.next = @ + 1]
    /\ UNCHANGED <<step, phase, chainErr, deferred, bundle, handles, progVars,
                   flash, enum>>
    /\ UNCHANGED <<failed, firmwareVersion, fileSrc, verify, cancelRequested, globalProgressListener, pipes>>

eraseFlashComplete ==
    /\ phase = "busy"
    /\ erase.active
    /\ \E i \in inFlight :
         /\ trace[i].op = "writeMany"
         /\ inFlight' = inFlight \ {i}
         /\ \/ /\ erase.completed + 1 < Len(erase.pages)
               /\ erase' = [erase EXCEPT !.completed = @ + 1]
               /\ UNCHANGED <<step, phase, chainErr, failed>>
            \/ /\ erase.completed + 1 >= Len(erase.pages)
               /\ erase' = IdleErase
               /\ Fulfil
               /\ UNCHANGED failed
            \/ /\ erase' = IdleErase
               /\ failed' = failed \cup {i}
               /\ RejectWith(safelyReject(TransportErr))
    /\ UNCHANGED <<deferred, bundle, trace, handles, progVars, flash, enum>>
    /\ UNCHANGED <<firmwareVersion, fileSrc, verify, cancelRequested, globalProgressListener, pipes>>

(***************************************************************************)
(* createFlashOperation: the list of chunk executions.                     *)
(***************************************************************************)
\* getdata whose reads are not bounds-checked
getdataNoAssert(dataBytes, numIntegers4, offset) ==
    [throws |-> FALSE,
     values |-> [i \in 1..Ceil(numIntegers4, BYTES_PER_INT) |->
                    offset + BYTES_PER_INT * (i - 1)]]

\* getdata(imageBuffer, numIntegers, offset): a word is identified by its
\* byte offset in the source buffer; readUInt32BE throws beyond the buffer
getdata(dataBytes, numIntegers4, offset) ==
    LET n == Ceil(numIntegers4, BYTES_PER_INT) IN
    [throws |-> \E i \in 0..(n - 1) :
                    offset + BYTES_PER_INT * i + BYTES_PER_INT > dataBytes,
     values |-> [i \in 1..n |-> offset + BYTES_PER_INT * (i - 1)]]

NoData == [throws |-> FALSE, values |-> <<>>]

\* the i-th (0-based) pass of the for loop over numIterations
FullExecution(i, startAddress, sizeInts, isReadOp, dataBytes) ==
    [address |-> startAddress + i * sizeInts * BYTES_PER_INT,
     innerSize4 |-> BYTES_PER_INT * sizeInts,
     data |-> IF isReadOp THEN NoData
              ELSE getdata(dataBytes, BYTES_PER_INT * GETDATA_FULL_BLOCK,
                           GETDATA_OFFSET_STEP * i)]

\* the execution added when shouldAugment && remainder > 0
RemainderExecution(numIterations, remainder4, startAddress, sizeInts, isReadOp, dataBytes) ==
    [address |-> startAddress + numIterations * sizeInts * BYTES_PER_INT,
     innerSize4 |-> remainder4,
     data |-> IF isReadOp THEN NoData
              ELSE getdata(dataBytes, remainder4,
                           GETDATA_OFFSET_STEP * numIterations)]

\* the remainder execution left out
executeOperationsNoRemainder(startAddress, length4, sizeInts, isReadOp, dataBytes) ==
    [k \in 1..(length4 \div (BYTES_PER_INT * sizeInts)) |->
        FullExecution(k - 1, startAddress, sizeInts, isReadOp, dataBytes)]

executeOperations(startAddress, length4, sizeInts, isReadOp, dataBytes) ==
    LET numIterations == length4 \div (BYTES_PER_INT * sizeInts)
        remainder4 == length4 % (BYTES_PER_INT * sizeInts)
        full == [k \in 1..numIterations |->
                    FullExecution(k - 1, startAddress, sizeInts, isReadOp,
                                  dataBytes)]
    IN IF remainder4 > 0
       THEN Append(full, RemainderExecution(numIterations, remainder4,
                             startAddress, sizeInts, isReadOp, dataBytes))
       ELSE full

\* value of the variable currentAddress once the executions are built
currentAddressAfter(startAddress, length4, sizeInts) ==
    startAddress
      + (length4 \div (BYTES_PER_INT * sizeInts)) * sizeInts * BYTES_PER_INT

PlanThrows(plan) == \E k \in 1..Len(plan) : plan[k].data.throws

\* createExecution: the compound frame handed to device.rwMany
Frame(exec, ptrAddress, flashAddress, isReadOp, key) ==
    LET dir == IF isReadOp THEN "LJM_READ" ELSE "LJM_WRITE"
        payload == IF isReadOp
                   THEN [i \in 1..Ceil(exec.innerSize4, BYTES_PER_INT) |-> null]
                   ELSE exec.data.values
    IN IF key = undefined
       THEN [addresses |-> <<ptrAddress, flashAddress>>,
             directions |-> <<"LJM_WRITE", dir>>,
             numFrames |-> 2,
             numValues4 |-> <<BYTES_PER_INT, exec.innerSize4>>,
             values |-> <<exec.address>> \o payload]
       ELSE [addresses |-> <<"T7_MA_EXF_KEY", ptrAddress, flashAddress>>,
             directions |-> <<"LJM_WRITE", "LJM_WRITE", dir>>,
             numFrames |-> 3,
             numValues4 |-> <<BYTES_PER_INT, BYTES_PER_INT, exec.innerSize4>>,
             values |-> <<key, exec.address>> \o payload]

NewFlash(caller, startAddress, length4, sizeInts, ptrAddress, flashAddress, isReadOp, key, dataBytes) ==
    [state |-> "running", caller |-> caller,
     plan |-> executeOperations(startAddress, length4, sizeInts, isReadOp,
                                dataBytes),
     next |-> 1, completed |-> 0,
     startAddress |-> startAddress, length4 |-> length4,
     sizeInts |-> sizeInts, isReadOp |-> isReadOp, key |-> key,
     dataBytes |-> dataBytes, ptrAddress |-> ptrAddress,
     memory |-> <<>>,
     flashAddress |-> flashAddress, numIntsWritten |-> 0,
     currentAddress |-> currentAddressAfter(startAddress, length4, sizeInts),
     offset |-> GETDATA_OFFSET_STEP
                  * (length4 \div (BYTES_PER_INT * sizeInts))]

writeFlash(caller, startAddress, length4, sizeInts, key, dataBytes) ==
    NewFlash(caller, startAddress, length4, sizeInts, "T7_MA_EXF_pWRITE",
             "T7_MA_EXF_WRITE", FALSE, key, dataBytes)

readFlash(caller, startAddress, length4, sizeInts) ==
    NewFlash(caller, startAddress, length4, sizeInts, "T7_MA_EXF_pREAD",
             "T7_MA_EXF_READ", TRUE, undefined, 0)

(***************************************************************************)
(* updateProgressScaled and the async.reduce loop of createFlashOperation. *)
(***************************************************************************)
ScaledValue(scaling, offset, value) ==
    [num |-> scaling.num * value + offset * scaling.den, den |-> scaling.den]

\* what updateProgressScaled(value) hands to the listener
updateProgressScaled(enabled, scaling, offset, value) ==
    IF enabled
    THEN <<ProgressEvent(ScaledValue(scaling, offset, value), "scaled")>>
    ELSE <<>>

\* the executions started without waiting for one another
FlashMayIssueParallel(pending) == TRUE

\* async.reduce runs the next execution only from the callback of the
\* previous one
FlashMayIssue(pending) == pending = {}

\* a counter that advances by the words of the execution about to run
NextIntsWrittenExact(f) ==
    f.numIntsWritten + Ceil(f.plan[f.next].innerSize4, BYTES_PER_INT)

\* the counter handed to updateProgressScaled before each execution
NextIntsWritten(f) == f.numIntsWritten + f.sizeInts

flashIssue ==
    /\ phase = "busy"
    /\ flash.state = "running"
    /\ flash.next <= Len(flash.plan)
    /\ FlashMayIssue(inFlight)
    /\ LET reported == updateProgressScaled(shouldUpdateProgressBar,
                           curScaling, curOffset, NextIntsWritten(flash))
           frame == Frame(flash.plan[flash.next], flash.ptrAddress,
                          flash.flashAddress, flash.isReadOp, flash.key)
       IN /\ trace' = (trace \o reported)
                         \o <<DevEvent("rwMany", bundle.device,
                                [frame |-> frame, chunk |-> flash.next])>>
          /\ inFlight' = inFlight \cup {Len(trace) + Len(reported) + 1}
    /\ flash' = [flash EXCEPT !.next = @ + 1,
                              !.numIntsWritten = NextIntsWritten(flash)]
    /\ UNCHANGED <<step, phase, chainErr, deferred, bundle, handles, progVars,
                   erase, enum>>
    /\ UNCHANGED <<failed, firmwareVersion, fileSrc, verify, cancelRequested, globalProgressListener, pipes>>

\* the rejection callback resolving like the success callback
FlashSettledSwallow(err) ==
    CASE flash.caller \in {"writeImage", "writeImageInformation"} ->
           /\ shouldUpdateProgressBar' = FALSE
           /\ UNCHANGED <<curOffset, curScaling>>
           /\ Fulfil
      [] OTHER ->
           /\ phase' = "done"
           /\ UNCHANGED <<step, chainErr, progVars>>

\* what the caller of the flash operation does once it settles
FlashSettled(err) ==
    CASE flash.caller \in {"writeImage", "writeImageInformation"} ->
           /\ shouldUpdateProgressBar' = FALSE
           /\ UNCHANGED <<curOffset, curScaling>>
           /\ IF err = NoErr THEN Fulfil ELSE RejectWith(safelyReject(err))
      [] OTHER ->
           /\ phase' = "done"
           /\ UNCHANGED <<step, chainErr, progVars>>

\* the word the device's flash holds at an address: 0xFFFFFFFF unless it
\* was programmed, or is corrupted
FlashWord(v, a) ==
    IF a \in v.dirty THEN GarbageWord
    ELSE IF a \in DOMAIN v.mem THEN v.mem[a]
    ELSE EXPECTED_ZEROED_MEM_VAL

\* the addresses of the words of one execution
ExecAddress(exec, k) == exec.address + BYTES_PER_INT * (k - 1)

\* newResults of a read execution
ReadWords(v, exec) ==
    [k \in 1..Ceil(exec.innerSize4, BYTES_PER_INT) |->
        FlashWord(v, ExecAddress(exec, k))]

\* the flash after a write execution was carried out
Program(mem, exec) ==
    LET new == {ExecAddress(exec, k) : k \in 1..Len(exec.data.values)}
    IN [a \in DOMAIN mem \cup new |->
          IF a \in new
          THEN exec.data.values[(a - exec.address) \div BYTES_PER_INT + 1]
          ELSE mem[a]]

\* lastResults.push.apply(lastResults, newResults): the words read; the
\* answer to a write carries none
Accumulate(f, v, exec) ==
    IF f.isReadOp THEN f.memory \o ReadWords(v, exec) ELSE f.memory

\* whether the device may answer an execution with an error: at any
\* execution during an upgrade; during a read-back only at the addresses
\* chosen beforehand
DeviceMayFail(v, exec) == v.op = "none" \/ exec.address \in v.faulty

flashComplete ==
    /\ phase = "busy"
    /\ flash.state = "running"
    /\ \E i \in inFlight :
         /\ trace[i].op = "rwMany"
         /\ inFlight' = inFlight \ {i}
         /\ LET exec == flash.plan[trace[i].detail.chunk]
                done == [flash EXCEPT !.completed = @ + 1,
                                      !.memory = Accumulate(flash, verify, exec)]
                device == IF flash.isReadOp THEN verify
                          ELSE [verify EXCEPT !.mem = Program(@, exec)]
            IN \/ /\ flash.completed + 1 < Len(flash.plan)
                  /\ flash' = done
                  /\ verify' = device
                  /\ UNCHANGED <<step, phase, chainErr, progVars, failed>>
               \/ /\ flash.completed + 1 >= Len(flash.plan)
                  /\ flash' = [done EXCEPT !.state = "resolved"]
                  /\ verify' = device
                  /\ FlashSettled(NoErr)
                  /\ UNCHANGED failed
               \/ /\ DeviceMayFail(verify, exec)
                  /\ flash' = [flash EXCEPT !.state = "rejected"]
                  /\ failed' = failed \cup {i}
                  /\ UNCHANGED verify
                  /\ FlashSettled(safelyReject(TransportErr))
    /\ UNCHANGED <<deferred, bundle, trace, handles, erase, enum>>
    /\ UNCHANGED <<firmwareVersion, fileSrc, cancelRequested, globalProgressListener, pipes>>

(***************************************************************************)
(* writeImage(minPercent, maxPercent) and writeImageInformation(min, max). *)
(***************************************************************************)
RangeErr == [kind |-> "RangeError",
             text |-> "Trying to access beyond buffer length"]

\* start a flash write from a then() handler: an exception thrown while the
\* executions are built rejects the handler's promise; an empty list of
\* executions resolves at once
StartWrite(op) ==
    IF PlanThrows(op.plan)
    THEN /\ RejectWith(RangeErr)
         /\ UNCHANGED flash
    ELSE IF op.plan = <<>>
         THEN /\ Fulfil
              /\ flash' = [op EXCEPT !.state = "resolved"]
         ELSE /\ GoBusy
              /\ flash' = op

writeImage ==
    /\ Starting("writeImage")
    /\ curScaling' = [num |-> BYTES_PER_INT
                        * (CHECKPOINT_THREE_PERCENT - CHECKPOINT_TWO_PERCENT),
                      den |-> bundle.imageBytes]
    /\ curOffset' = CHECKPOINT_TWO_PERCENT
    /\ LET op == writeFlash("writeImage", T7_EFAdd_ExtFirmwareImage,
                            bundle.imageBytes, T7_FLASH_BLOCK_WRITE_SIZE,
                            T7_EFkey_ExtFirmwareImage, bundle.imageBytes)
       IN /\ StartWrite(op)
          /\ shouldUpdateProgressBar' =
                (PlanThrows(op.plan) \/ op.plan # <<>>)
    /\ UNCHANGED <<deferred, bundle, trace, inFlight, handles, erase, enum>>
    /\ UNCHANGED <<failed, firmwareVersion, fileSrc, verify, cancelRequested, globalProgressListener, pipes>>

writeImageInformation ==
    /\ Starting("writeImageInformation")
    /\ curScaling' = [num |-> BYTES_PER_INT
                        * (CHECKPOINT_FOUR_PERCENT - CHECKPOINT_THREE_PERCENT),
                      den |-> bundle.rawImageInfoBytes]
    /\ curOffset' = CHECKPOINT_THREE_PERCENT
    /\ LET op == writeFlash("writeImageInformation",
                            T7_EFAdd_ExtFirmwareImgInfo,
                            bundle.rawImageInfoBytes,
                            T7_FLASH_BLOCK_WRITE_SIZE,
                            T7_EFkey_ExtFirmwareImgInfo,
                            bundle.rawImageInfoBytes)
       IN /\ StartWrite(op)
          /\ shouldUpdateProgressBar' =
                IF PlanThrows(op.plan) THEN shouldUpdateProgressBar ELSE
                IF op.plan = <<>> THEN FALSE ELSE shouldUpdateProgressBar
    /\ UNCHANGED <<deferred, bundle, trace, inFlight, handles, erase, enum>>
    /\ UNCHANGED <<failed, firmwareVersion, fileSrc, verify, cancelRequested, globalProgressListener, pipes>>

(***************************************************************************)
(* restartAndUpgrade, closeDevice, pauseForClose.                          *)
(***************************************************************************)
restartAndUpgrade ==
    /\ Starting("restartAndUpgrade")
    /\ trace' = Append(trace, DevEvent("write", bundle.device,
                    [register |-> "T7_MA_REQ_FWUPG",
                     value |-> "T7_REQUEST_FW_UPGRADE"]))
    /\ inFlight' = inFlight \cup {Len(trace) + 1}
    /\ GoBusy
    /\ UNCHANGED <<deferred, bundle, handles, progVars, erase, flash, enum>>
    /\ UNCHANGED <<failed, firmwareVersion, fileSrc, verify, cancelRequested, globalProgressListener, pipes>>

restartAndUpgradeComplete ==
    /\ Busy("restartAndUpgrade")
    /\ \E i \in inFlight :
         /\ trace[i].op = "write"
         /\ inFlight' = inFlight \ {i}
         /\ \/ /\ Fulfil
               /\ UNCHANGED failed
            \/ /\ failed' = failed \cup {i}
               /\ RejectWith(safelyReject(TransportErr))
    /\ UNCHANGED <<deferred, bundle, trace, handles, progVars, erase, flash,
                   enum>>
    /\ UNCHANGED <<firmwareVersion, fileSrc, verify, cancelRequested, globalProgressListener, pipes>>

closeDevice ==
    /\ Starting("closeDevice")
    /\ trace' = Append(trace, DevEvent("close", bundle.device, NoDetail))
    /\ inFlight' = inFlight \cup {Len(trace) + 1}
    /\ GoBusy
    /\ UNCHANGED <<deferred, bundle, handles, progVars, erase, flash, enum>>
    /\ UNCHANGED <<failed, firmwareVersion, fileSrc, verify, cancelRequested, globalProgressListener, pipes>>

\* device.close(onError, onSuccess): the error callback rejects with the
\* bundle itself, the success callback resolves with it
closeDeviceComplete ==
    /\ Busy("closeDevice")
    /\ \E i \in inFlight :
         /\ trace[i].op = "close"
         /\ inFlight' = inFlight \ {i}
         /\ \/ /\ handles' = [handles EXCEPT ![trace[i].handle] = "closed"]
               /\ Fulfil
               /\ UNCHANGED failed
            \/ /\ UNCHANGED handles
               /\ failed' = failed \cup {i}
               /\ RejectWith([kind |-> "bundle", text |-> "bundle"])
    /\ UNCHANGED <<deferred, bundle, trace, progVars, erase, flash, enum>>
    /\ UNCHANGED <<firmwareVersion, fileSrc, verify, cancelRequested, globalProgressListener, pipes>>

\* setTimeout(continueExec, EXPECTED_FIRMWARE_UPDATE_TIME)
pauseForClose ==
    /\ Starting("pauseForClose")
    /\ Fulfil
    /\ UNCHANGED <<deferred, bundle, trace, inFlight, handles, progVars,
                   erase, flash, enum>>
    /\ UNCHANGED <<failed, firmwareVersion, fileSrc, verify, cancelRequested, globalProgressListener, pipes>>

(***************************************************************************)
(* waitForEnumeration: a timer runs checkForDevice, which lists the        *)
(* connected serials and opens the device when its serial is among them.   *)
(***************************************************************************)
waitForEnumeration ==
    /\ Starting("waitForEnumeration")
    /\ enum' = [timer |-> TRUE, polls |-> 0, results |-> <<>>]
    /\ GoBusy
    /\ UNCHANGED <<deferred, bundle, trace, inFlight, handles, progVars,
                   erase, flash>>
    /\ UNCHANGED <<failed, firmwareVersion, fileSrc, verify, cancelRequested, globalProgressListener, pipes>>

checkForDevice ==
    /\ Busy("waitForEnumeration")
    /\ enum.timer
    /\ enum.polls < MaxPolls
    /\ enum' = [enum EXCEPT !.timer = FALSE, !.polls = @ + 1]
    /\ trace' = Append(trace, DevEvent("listAll", "driver",
                    [deviceType |-> "LJM_dtT7",
                     connectionType |-> bundle.connectionType]))
    /\ inFlight' = inFlight \cup {Len(trace) + 1}
    /\ UNCHANGED <<step, phase, chainErr, deferred, bundle, handles, progVars,
                   erase, flash>>
    /\ UNCHANGED <<failed, firmwareVersion, fileSrc, verify, cancelRequested, globalProgressListener, pipes>>

\* an open attempted whatever the enumeration reports
serialPresentAlways(serialNumbers, targetSerial) == TRUE

\* serialNumbers.indexOf(targetSerial) != -1
serialPresent(serialNumbers, targetSerial) == targetSerial \in serialNumbers

\* newDevice.open("LJM_dtT7", self.connectionType, self.targetSerial, ...):
\* the identifier is the serial number's decimal string
OpenArgs(b) == [deviceType |-> "LJM_dtT7",
                connectionType |-> b.connectionType,
                identifier |-> ToString(b.serial)]

ListAllError == [err |-> TRUE, serials |-> {}]

ListAllResult(serialNumbers) == [err |-> FALSE, serials |-> serialNumbers]

\* the answer of listAll: an error (no rejection handler is attached, so
\* nothing further is scheduled), a list without the serial (a new timer),
\* or a list with it (the open is issued)
listAllComplete ==
    /\ Busy("waitForEnumeration")
    /\ \E i \in inFlight :
         /\ trace[i].op = "listAll"
         /\ \/ /\ inFlight' = inFlight \ {i}
               /\ failed' = failed \cup {i}
               /\ enum' = [enum EXCEPT !.results = Append(@, ListAllError)]
               /\ UNCHANGED trace
            \/ \E serialNumbers \in EnumerationResults :
                 /\ UNCHANGED failed
                 /\ IF serialPresent(serialNumbers, bundle.serial)
                    THEN /\ trace' = Append(trace,
                             DevEvent("open", NewHandle, OpenArgs(bundle)))
                         /\ inFlight' = (inFlight \ {i}) \cup {Len(trace) + 1}
                         /\ enum' = [enum EXCEPT !.results =
                                       Append(@, ListAllResult(serialNumbers))]
                    ELSE /\ inFlight' = inFlight \ {i}
                         /\ enum' = [enum EXCEPT !.timer = TRUE, !.results =
                                       Append(@, ListAllResult(serialNumbers))]
                         /\ UNCHANGED trace
    /\ UNCHANGED <<step, phase, chainErr, deferred, bundle, handles, progVars,
                   erase, flash>>
    /\ UNCHANGED <<firmwareVersion, fileSrc, verify, cancelRequested, globalProgressListener, pipes>>

\* an open success callback that also takes the serial number anew
onOpenSuccessReserial(b, newDevice) ==
    [b EXCEPT !.device = newDevice, !.serial = OtherSerial]

\* an open success callback that leaves the bundle's device alone
onOpenSuccessKeep(b, newDevice) == b

\* the success callback of open: bundle.setDevice(newDevice)
onOpenSuccess(b, newDevice) == [b EXCEPT !.device = newDevice]

\* an open error callback that schedules nothing
onOpenErrorDrop(e) == e

\* the error callback of open: setTimeout(checkForDevice, EXPECTED_REBOOT_WAIT)
onOpenError(e) == [e EXCEPT !.timer = TRUE]

openComplete ==
    /\ Busy("waitForEnumeration")
    /\ \E i \in inFlight :
         /\ trace[i].op = "open"
         /\ inFlight' = inFlight \ {i}
         /\ \/ /\ handles' = [handles EXCEPT ![trace[i].handle] = "open"]
               /\ bundle' = onOpenSuccess(bundle, trace[i].handle)
               /\ Fulfil
               /\ UNCHANGED <<enum, failed>>
            \/ /\ enum' = onOpenError(enum)
               /\ failed' = failed \cup {i}
               /\ UNCHANGED <<handles, bundle, step, phase, chainErr>>
    /\ UNCHANGED <<deferred, trace, progVars, erase, flash>>
    /\ UNCHANGED <<firmwareVersion, fileSrc, verify, cancelRequested, globalProgressListener, pipes>>

(***************************************************************************)
(* checkNewFirmware: read FIRMWARE_VERSION and compare with the bundle.    *)
(***************************************************************************)
ReportedVersions5(version) ==
    {version * 10, version * 10 + 10, version * 10 + 20}

\* Math.abs(dif) > 0.0001, both versions in units of 0.00001
versionDiffers(version, reported5) ==
    LET dif == version * 10 - reported5
    IN (IF dif < 0 THEN -dif ELSE dif) > 10

VersionMismatch ==
    [kind |-> "Error",
     text |-> "New firmware version does not reflect upgrade."]

checkNewFirmware ==
    /\ Starting("checkNewFirmware")
    /\ trace' = Append(trace, DevEvent("read", bundle.device,
                    [register |-> "FIRMWARE_VERSION"]))
    /\ inFlight' = inFlight \cup {Len(trace) + 1}
    /\ GoBusy
    /\ UNCHANGED <<deferred, bundle, handles, progVars, erase, flash, enum>>
    /\ UNCHANGED <<failed, firmwareVersion, fileSrc, verify, cancelRequested, globalProgressListener, pipes>>

checkNewFirmwareComplete ==
    /\ Busy("checkNewFirmware")
    /\ \E i \in inFlight :
         /\ trace[i].op = "read"
         /\ inFlight' = inFlight \ {i}
         /\ \/ /\ failed' = failed \cup {i}
               /\ RejectWith(safelyReject(TransportErr))
               /\ UNCHANGED firmwareVersion
            \/ /\ UNCHANGED failed
               /\ \E reported5 \in ReportedVersions5(bundle.version) :
                    /\ firmwareVersion' = reported5
                    /\ IF versionDiffers(bundle.version, reported5)
                       THEN RejectWith(VersionMismatch)
                       ELSE Fulfil
    /\ UNCHANGED <<deferred, bundle, trace, handles, progVars, erase, flash,
                   enum>>
    /\ UNCHANGED <<fileSrc, verify, cancelRequested, globalProgressListener, pipes>>

(***************************************************************************)
(* The upgrade pipeline.                                                   *)
(***************************************************************************)
Next ==
    \/ readFirmwareFile
    \/ injectDevice
    \/ checkCompatibility
    \/ updateProgress
    \/ updateStatusText
    \/ ListenerDone
    \/ eraseFlashStart
    \/ eraseFlashIssue
    \/ eraseFlashComplete
    \/ writeImage
    \/ writeImageInformation
    \/ flashIssue
    \/ flashComplete
    \/ restartAndUpgrade
    \/ restartAndUpgradeComplete
    \/ closeDevice
    \/ closeDeviceComplete
    \/ pauseForClose
    \/ waitForEnumeration
    \/ checkForDevice
    \/ listAllComplete
    \/ openComplete
    \/ checkNewFirmware
    \/ checkNewFirmwareComplete
    \/ resolve
    \/ RejectionHandler

Spec == Init /\ [][Next]_vars

(***************************************************************************)
(* createFlashOperation on its own: any start address, length, block size  *)
(* and direction; a write is given a buffer of exactly length words.       *)
(***************************************************************************)
FlashStarts == {0, T7_EFAdd_ExtFirmwareImage}

FlashArgs(startAddress, lengthInts, sizeInts, isReadOp) ==
    [IdleFlash EXCEPT !.state = "args", !.caller = "standalone",
                      !.startAddress = startAddress,
                      !.length4 = BYTES_PER_INT * lengthInts,
                      !.sizeInts = sizeInts,
                      !.isReadOp = isReadOp,
                      !.key = IF isReadOp THEN undefined
                              ELSE T7_EFkey_ExtFirmwareImage,
                      !.ptrAddress = IF isReadOp THEN "T7_MA_EXF_pREAD"
                                     ELSE "T7_MA_EXF_pWRITE",
                      !.flashAddress = IF isReadOp THEN "T7_MA_EXF_READ"
                                       ELSE "T7_MA_EXF_WRITE",
                      !.dataBytes = IF isReadOp THEN 0
                                    ELSE BYTES_PER_INT * lengthInts]

InitFlash ==
    /\ InitCommonFlash
    /\ fileSrc = GoodFile(FALSE, 0, HEADER_SIZE)
    /\ verify = IdleVerify
    /\ cancelRequested = FALSE
    /\ globalProgressListener = TheListener
    /\ pipes = NoPipes
    /\ step = 0
    /\ phase = "busy"
    /\ \E startAddress \in FlashStarts, lengthInts \in 0..MaxFlashLen,
          sizeInts \in 1..MaxFlashBlock, isReadOp \in BOOLEAN :
         flash = FlashArgs(startAddress, lengthInts, sizeInts, isReadOp)

\* the call itself: build the executions, then start async.reduce
createFlashOperation ==
    /\ flash.state = "args"
    /\ LET op == NewFlash("standalone", flash.startAddress, flash.length4,
                          flash.sizeInts, flash.ptrAddress,
                          flash.flashAddress, flash.isReadOp, flash.key,
                          flash.dataBytes)
       IN IF PlanThrows(op.plan)
          THEN /\ flash' = [flash EXCEPT !.state = "threw"]
               /\ phase' = "done"
          ELSE IF op.plan = <<>>
               THEN /\ flash' = [op EXCEPT !.state = "resolved"]
                    /\ phase' = "done"
               ELSE /\ flash' = op
                    /\ UNCHANGED phase
    /\ UNCHANGED <<step, chainErr, deferred, bundle, trace, inFlight, handles,
                   progVars, erase, enum>>
    /\ UNCHANGED <<failed, firmwareVersion, fileSrc, verify, cancelRequested, globalProgressListener, pipes>>

NextFlash ==
    \/ createFlashOperation
    \/ flashIssue
    \/ flashComplete

SpecFlash == InitFlash /\ [][NextFlash]_vars

(***************************************************************************)
(* The caller wishing to stop a running upgrade.  updateFirmware(device,   *)
(* firmwareFileLocation, connectionType, progressListener) takes no        *)
(* cancellation input and the module exports none, so the wish reaches no  *)
(* variable of the program: it is recorded here and nothing reads it.      *)
(***************************************************************************)
requestCancel ==
    /\ ~cancelRequested
    /\ deferred.state = "pending"
    /\ cancelRequested' = TRUE
    /\ UNCHANGED <<step, phase, chainErr, deferred, bundle, trace, inFlight,
                   handles, progVars, erase, flash, enum, failed,
                   firmwareVersion, fileSrc, verify, globalProgressListener,
                   pipes>>

NextCancel == Next \/ requestCancel

SpecCancel == Init /\ [][NextCancel]_vars

(***************************************************************************)
(* The read-back operations readImage, readImageInformation, checkErase    *)
(* and checkImageWrite, each called on its own with a loaded bundle; and   *)
(* writeImage followed by readImage.                                       *)
(***************************************************************************)
VerifyOps == {"readImage", "checkErase", "checkImageWrite", "roundTrip"}

VerifyImageLengths == {32, 36}

\* the corrupted words of the flash: none, the first word of the image-info
\* region, the second word of the image region
DirtyChoices ==
    {{}, {T7_EFAdd_ExtFirmwareImgInfo},
     {T7_EFAdd_ExtFirmwareImage + BYTES_PER_INT}}

\* the executions the device answers with an error: none, the second of
\* the image-info region, the second of the image region, both
FaultyChoices ==
    LET blockBytes == BYTES_PER_INT * T7_FLASH_BLOCK_WRITE_SIZE
        info == T7_EFAdd_ExtFirmwareImgInfo + blockBytes
        image == T7_EFAdd_ExtFirmwareImage + blockBytes
    IN {{}, {info}, {image}, {info, image}}

InitVerify ==
    /\ chainErr = NoErr
    /\ deferred = [state |-> "pending", value |-> "none"]
    /\ \E n \in VerifyImageLengths :
         /\ fileSrc = GoodFile(FALSE, 0, HEADER_SIZE + n)
         /\ bundle = [ParsedBundle(fileSrc) EXCEPT
                         !.device = OldHandle, !.serial = TheSerial,
                         !.connectionType = TheConnectionType]
    /\ trace = <<>>
    /\ inFlight = {}
    /\ handles = [h \in {OldHandle, NewHandle} |->
                     IF h = OldHandle THEN "open" ELSE "unopened"]
    /\ curOffset = 0
    /\ curScaling = [num |-> 0, den |-> 1]
    /\ shouldUpdateProgressBar = FALSE
    /\ erase = IdleErase
    /\ enum = IdleEnum
    /\ failed = {}
    /\ firmwareVersion = undefined
    /\ flash = IdleFlash
    /\ phase = "start"
    /\ cancelRequested = FALSE
    /\ globalProgressListener = TheListener
    /\ pipes = NoPipes
    /\ \E op \in VerifyOps, dirty \in DirtyChoices, faulty \in FaultyChoices :
         /\ verify = [op |-> op, pc |-> "start", mem |-> NoWords,
                      dirty |-> dirty, faulty |-> faulty]
         /\ step = IF op = "roundTrip" THEN StageIdx("writeImage") ELSE 0

\* readImageInformation(bundle): read the whole image-info region
readImageInformation ==
    /\ phase = "start"
    /\ verify.op = "checkErase" /\ verify.pc = "start"
    /\ flash' = readFlash("readImageInformation", T7_EFAdd_ExtFirmwareImgInfo,
                          HdrPages * T7_FLASH_PAGE_SIZE,
                          T7_FLASH_BLOCK_WRITE_SIZE)
    /\ phase' = "busy"
    /\ verify' = [verify EXCEPT !.pc = "readImageInformation"]
    /\ UNCHANGED <<step, chainErr, deferred, bundle, trace, inFlight, handles,
                   progVars, erase, enum, failed, firmwareVersion, fileSrc, cancelRequested, globalProgressListener, pipes>>

\* readImage(bundle): read the whole image region
readImage ==
    /\ phase = "start"
    /\ \/ verify.op \in {"readImage", "checkImageWrite"} /\ verify.pc = "start"
       \/ verify.op = "checkErase" /\ verify.pc = "checkMemory"
       \/ /\ verify.op = "roundTrip" /\ verify.pc = "start"
          /\ step = StageIdx("writeImage") + 1
    /\ flash' = readFlash("readImage", T7_EFAdd_ExtFirmwareImage,
                          ImgPages * T7_FLASH_PAGE_SIZE,
                          T7_FLASH_BLOCK_WRITE_SIZE)
    /\ step' = 0
    /\ phase' = "busy"
    /\ verify' = [verify EXCEPT !.pc = "readImage"]
    /\ UNCHANGED <<chainErr, deferred, bundle, trace, inFlight, handles,
                   progVars, erase, enum, failed, firmwareVersion, fileSrc, cancelRequested, globalProgressListener, pipes>>

\* what the promise of readImage / readImageInformation is resolved with:
\* deferred.resolve(bundle); the words read are in f.memory and go nowhere
ReadResolution(f) == [kind |-> "bundle", data |-> <<>>]

\* v.length of a value handed to a then() handler
lengthOf(v) == IF v.kind = "array" THEN Len(v.data) ELSE undefined

\* passes of for (i = 0; i < length; i++): i < undefined is false
loopCount(length) == IF length = undefined THEN 0 ELSE length

isAllZeroed(memory) ==
    \A i \in 1..loopCount(lengthOf(memory)) :
        memory.data[i] = EXPECTED_ZEROED_MEM_VAL

\* bundleImage[i]: a byte of the image buffer, which no flash word stands for
ImageByte(i) == -(i + 10)

\* the indices at which checkImageWrite calls deferred.reject
unexpectedAt(readImageValue) ==
    {i \in 0..(loopCount(lengthOf(readImageValue)) - 1) :
        ImageByte(i) # readImageValue.data[i + 1]}

ReadSettled(pc) ==
    /\ phase = "done"
    /\ verify.pc = pc
    /\ flash.state \in {"resolved", "rejected"}

ReadFailure == ErrorText(safelyReject(TransportErr))

\* readImage called on its own: its promise settles
readImageThen ==
    /\ ReadSettled("readImage")
    /\ verify.op \in {"readImage", "roundTrip"}
    /\ deferred' = IF flash.state = "resolved"
                   THEN Settle(deferred, "resolved", ReadResolution(flash).kind)
                   ELSE Settle(deferred, "rejected", ReadFailure)
    /\ verify' = [verify EXCEPT !.pc = "end"]
    /\ UNCHANGED <<step, phase, chainErr, bundle, trace, inFlight, handles,
                   progVars, erase, flash, enum, failed, firmwareVersion,
                   fileSrc, cancelRequested, globalProgressListener, pipes>>

\* checkImageWrite: the handlers of readImage(bundle).then(...)
checkImageWriteThen ==
    /\ ReadSettled("readImage")
    /\ verify.op = "checkImageWrite"
    /\ deferred' =
         IF flash.state = "rejected"
         THEN Settle(deferred, "rejected", ReadFailure)
         ELSE IF unexpectedAt(ReadResolution(flash)) # {}
              THEN Settle(deferred, "rejected",
                          "Error: Unexpected image data at")
              ELSE Settle(deferred, "resolved", "bundle")
    /\ verify' = [verify EXCEPT !.pc = "end"]
    /\ UNCHANGED <<step, phase, chainErr, bundle, trace, inFlight, handles,
                   progVars, erase, flash, enum, failed, firmwareVersion,
                   fileSrc, cancelRequested, globalProgressListener, pipes>>

\* checkErase, first then(): checkIfZeroedThenContinue settles a deferred of
\* its own that nothing waits for, and returns nothing, and
\* createSafeReject rejects the outer deferred and returns nothing, so the
\* next then() runs its fulfilment handler either way
checkIfZeroedThenContinue ==
    /\ ReadSettled("readImageInformation")
    /\ verify.op = "checkErase"
    /\ deferred' = IF flash.state = "rejected"
                   THEN Settle(deferred, "rejected", ReadFailure)
                   ELSE deferred
    /\ phase' = "start"
    /\ verify' = [verify EXCEPT !.pc = "checkMemory"]
    /\ UNCHANGED <<step, chainErr, bundle, trace, inFlight, handles,
                   progVars, erase, flash, enum, failed, firmwareVersion,
                   fileSrc, cancelRequested, globalProgressListener, pipes>>

\* checkErase, second and third then(): checkMemory(readImage) has no
\* rejection handler on readImage, and never settles its inner deferred
\* when the memory is not zeroed
checkMemory ==
    /\ ReadSettled("readImage")
    /\ verify.op = "checkErase"
    /\ IF flash.state = "rejected"
       THEN /\ UNCHANGED deferred
            /\ verify' = [verify EXCEPT !.pc = "hung"]
       ELSE IF ~isAllZeroed(ReadResolution(flash))
            THEN /\ deferred' = Settle(deferred, "rejected",
                                       "Error: Memory not zeroed.")
                 /\ verify' = [verify EXCEPT !.pc = "hung"]
            ELSE /\ deferred' = Settle(deferred, "resolved", "bundle")
                 /\ verify' = [verify EXCEPT !.pc = "end"]
    /\ UNCHANGED <<step, phase, chainErr, bundle, trace, inFlight, handles,
                   progVars, erase, flash, enum, failed, firmwareVersion,
                   fileSrc, cancelRequested, globalProgressListener, pipes>>

NextVerify ==
    \/ writeImage
    \/ readImageInformation
    \/ readImage
    \/ flashIssue
    \/ flashComplete
    \/ readImageThen
    \/ checkImageWriteThen
    \/ checkIfZeroedThenContinue
    \/ checkMemory

SpecVerify == InitVerify /\ [][NextVerify]_vars

(***************************************************************************)
(* Two updateFirmware invocations that overlap, each with its own device   *)
(* and its own progress listener: the statements of each that read or      *)
(* write the module-level curOffset, curScaling, shouldUpdateProgressBar   *)
(* and globalProgressListener, or call a listener.  A pipeline gives way   *)
(* to the other whenever it waits for the device.                          *)
(***************************************************************************)
Pipelines == {1, 2}

\* the progressListener argument of pipeline p
ListenerOf(p) == p

TwoImageLengths == {32, 64}

IdlePipe(imageBytes) ==
    [pc |-> "idle", imageBytes |-> imageBytes, chunks |-> 0, next |-> 1,
     numIntsWritten |-> 0]

InitTwo ==
    /\ InitCommonFlash
    /\ fileSrc = GoodFile(FALSE, 0, HEADER_SIZE)
    /\ verify = IdleVerify
    /\ cancelRequested = FALSE
    /\ step = 0
    /\ phase = "done"
    /\ flash = IdleFlash
    /\ globalProgressListener = undefined
    /\ \E lengths \in [Pipelines -> TwoImageLengths] :
         pipes = [p \in Pipelines |-> IdlePipe(lengths[p])]

\* an event as received: by which listener, from which pipeline, in which
\* of its stages and with which counter
Delivered(e, listener, p) ==
    [type |-> e.type, value |-> e.value, src |-> e.src,
     listener |-> listener, pipeline |-> p, stage |-> pipes[p].pc,
     counter |-> pipes[p].numIntsWritten + T7_FLASH_BLOCK_WRITE_SIZE]

TwoFrame ==
    UNCHANGED <<step, phase, chainErr, deferred, bundle, inFlight, handles,
                erase, flash, enum, failed, firmwareVersion, fileSrc, verify,
                cancelRequested>>

\* updateFirmware(device, file, connectionType, progressListener) is called
callUpdateFirmware(p) ==
    /\ pipes[p].pc = "idle"
    /\ globalProgressListener' = ListenerOf(p)
    /\ pipes' = [pipes EXCEPT ![p].pc = "updateProgress30"]
    /\ UNCHANGED <<trace, progVars>>
    /\ TwoFrame

\* updateProgress(value): the listener of the closure is called
twoUpdateProgress(p) ==
    /\ pipes[p].pc \in {"updateProgress30", "updateProgress90"}
    /\ trace' = Append(trace,
          Delivered(ProgressEvent([num |-> CheckpointOf(pipes[p].pc),
                                   den |-> 1], "checkpoint"),
                    ListenerOf(p), p))
    /\ pipes' = [pipes EXCEPT ![p].pc =
                    IF @ = "updateProgress30" THEN "writeImage" ELSE "end"]
    /\ UNCHANGED <<progVars, globalProgressListener>>
    /\ TwoFrame

\* writeImage(30, 85)(bundle) up to the first wait for the device
twoWriteImage(p) ==
    /\ pipes[p].pc = "writeImage"
    /\ shouldUpdateProgressBar' = TRUE
    /\ curScaling' = [num |-> BYTES_PER_INT
                        * (CHECKPOINT_THREE_PERCENT - CHECKPOINT_TWO_PERCENT),
                      den |-> pipes[p].imageBytes]
    /\ curOffset' = CHECKPOINT_TWO_PERCENT
    /\ pipes' = [pipes EXCEPT
          ![p].pc = "writing",
          ![p].chunks = Ceil(pipes[p].imageBytes,
                             BYTES_PER_INT * T7_FLASH_BLOCK_WRITE_SIZE),
          ![p].next = 1,
          ![p].numIntsWritten = 0]
    /\ UNCHANGED <<trace, globalProgressListener>>
    /\ TwoFrame

\* writeImageInformation(85, 90)(bundle) up to the first wait
twoWriteImageInformation(p) ==
    /\ pipes[p].pc = "writeImageInformation"
    /\ curScaling' = [num |-> BYTES_PER_INT
                        * (CHECKPOINT_FOUR_PERCENT - CHECKPOINT_THREE_PERCENT),
                      den |-> HEADER_SIZE]
    /\ curOffset' = CHECKPOINT_THREE_PERCENT
    /\ pipes' = [pipes EXCEPT
          ![p].pc = "writingInfo",
          ![p].chunks = Ceil(HEADER_SIZE,
                             BYTES_PER_INT * T7_FLASH_BLOCK_WRITE_SIZE),
          ![p].next = 1,
          ![p].numIntsWritten = 0]
    /\ UNCHANGED <<trace, shouldUpdateProgressBar, globalProgressListener>>
    /\ TwoFrame

\* one pass of the async.reduce iterator: the counter advances,
\* updateProgressScaled reports to globalProgressListener, the chunk goes
\* to the device
twoChunk(p) ==
    /\ pipes[p].pc \in {"writing", "writingInfo"}
    /\ pipes[p].next <= pipes[p].chunks
    /\ LET n == pipes[p].numIntsWritten + T7_FLASH_BLOCK_WRITE_SIZE
           reported == updateProgressScaled(shouldUpdateProgressBar,
                                            curScaling, curOffset, n)
       IN /\ trace' = trace \o [k \in 1..Len(reported) |->
                          Delivered(reported[k], globalProgressListener, p)]
          /\ pipes' = [pipes EXCEPT ![p].next = @ + 1,
                                    ![p].numIntsWritten = n]
    /\ UNCHANGED <<progVars, globalProgressListener>>
    /\ TwoFrame

\* the flash write has resolved: shouldUpdateProgressBar = false
twoWriteSettled(p) ==
    /\ pipes[p].pc \in {"writing", "writingInfo"}
    /\ pipes[p].next > pipes[p].chunks
    /\ shouldUpdateProgressBar' = FALSE
    /\ pipes' = [pipes EXCEPT ![p].pc =
                    IF @ = "writing" THEN "writeImageInformation"
                    ELSE "updateProgress90"]
    /\ UNCHANGED <<trace, curOffset, curScaling, globalProgressListener>>
    /\ TwoFrame

NextTwo ==
    \E p \in Pipelines :
        \/ callUpdateFirmware(p)
        \/ twoUpdateProgress(p)
        \/ twoWriteImage(p)
        \/ twoWriteImageInformation(p)
        \/ twoChunk(p)
        \/ twoWriteSettled(p)

SpecTwo == InitTwo /\ [][NextTwo]_vars

(***************************************************************************)
(* Views of the trace used by the properties below.                        *)
(***************************************************************************)
DevIdx == {i \in 1..Len(trace) : trace[i].type = "dev"}

OpIdx(op) == {i \in DevIdx : trace[i].op = op}

RwIdx == OpIdx("rwMany")

ProgressIdx == {i \in 1..Len(trace) : trace[i].type = "progress"}

FrameOf(i) == trace[i].detail.frame

\* the word count the frame declares for the data register
DeclaredWords(i) ==
    FrameOf(i).numValues4[Len(FrameOf(i).numValues4)] \div BYTES_PER_INT

\* the value written to the pointer register
FramePtr(i) == FrameOf(i).values[Len(FrameOf(i).addresses) - 1]

\* the values that follow the pointer (and key) values
FrameData(i) ==
    SubSeq(FrameOf(i).values, Len(FrameOf(i).addresses),
           Len(FrameOf(i).values))

IsFlashWrite(i) ==
    FrameOf(i).directions[Len(FrameOf(i).directions)] = "LJM_WRITE"

RECURSIVE SumDeclared(_)
SumDeclared(n) ==
    IF n = 0 THEN 0
    ELSE SumDeclared(n - 1) + (IF n \in RwIdx THEN DeclaredWords(n) ELSE 0)

LastOf(S) == CHOOSE i \in S : \A j \in S : j <= i

Leq(a, b) == a.num * b.den <= b.num * a.den

Percent(v) == [num |-> v, den |-> 1]

BundleCompatible ==
    /\ bundle.headerCode = T7_HEAD_FIRST_FOUR_BYTES
    /\ bundle.intendedDevice \in {T7_TARGET_OLD, T7_TARGET}
    /\ bundle.version # NaN
    /\ bundle.containedVersion = bundle.version

VersionsDiffer ==
    bundle.loaded /\ (bundle.version = NaN
                        \/ bundle.containedVersion # bundle.version)

(***************************************************************************)
(* C1: the stages of updateFirmware are strictly serial.  At most one     *)
(* transaction is in flight; a transaction in flight belongs to the stage  *)
(* the chain is currently running, so every earlier stage has completed;   *)
(* and the operations issued appear in the order of the stages.            *)
(***************************************************************************)
C1_StagesSerial ==
    /\ Cardinality(inFlight) <= 1
    /\ \A i \in inFlight :
         /\ i \in DevIdx
         /\ phase = "busy"
         /\ AtStage(trace[i].stage)
    /\ \A i, j \in DevIdx :
         i < j => StageIdx(trace[i].stage) <= StageIdx(trace[j].stage)

C1_Witness ==
    /\ deferred.state = "resolved"
    /\ OpIdx("writeMany") # {}
    /\ RwIdx # {}
    /\ OpIdx("open") # {}

(***************************************************************************)
(* C2: no flash erase and no flash write has been issued unless the bundle *)
(* passed the compatibility check: header code equal to the family magic,  *)
(* intended device allowed, contained version equal to the bundle version. *)
(***************************************************************************)
C2_NoFlashChangeUnlessCompatible ==
    (OpIdx("writeMany") # {} \/ \E i \in RwIdx : IsFlashWrite(i))
        => BundleCompatible

C2_Witness ==
    /\ OpIdx("writeMany") # {}
    /\ \E i \in RwIdx : IsFlashWrite(i)
    /\ bundle.intendedDevice = T7_TARGET_OLD

(***************************************************************************)
(* C3: checkCompatibility resolves with the unchanged bundle exactly when  *)
(* the three predicates hold; otherwise it rejects with the error of the   *)
(* first failed predicate in the order header code, device type, version,  *)
(* and the three errors are distinct.                                      *)
(***************************************************************************)
C3_ExpectedError ==
    IF bundle.headerCode # T7_HEAD_FIRST_FOUR_BYTES
    THEN "Invalid header code."
    ELSE IF bundle.intendedDevice \notin {T7_TARGET_OLD, T7_TARGET}
         THEN "Incorrect device type."
         ELSE "Incorrect version."

C3_CheckCompatibility ==
    [][Starting("checkCompatibility") =>
         /\ bundle' = bundle
         /\ IF BundleCompatible
            THEN phase' = "start" /\ chainErr' = NoErr
            ELSE /\ phase' = "rejected"
                 /\ chainErr' = [kind |-> "Error", text |-> C3_ExpectedError]
         /\ Cardinality({"Invalid header code.", "Incorrect device type.",
                         "Incorrect version."}) = 3]_vars

C3_Witness ==
    /\ step = StageIdx("checkCompatibility") + 1
    /\ phase = "rejected"
    /\ chainErr = [kind |-> "Error", text |-> "Incorrect device type."]
    /\ VersionsDiffer

C5_Original ==
    flash.state = "resolved" =>
        LET L == flash.length4 \div BYTES_PER_INT IN
        /\ SumDeclared(Len(trace)) = L
        /\ Cardinality(RwIdx) = Ceil(L, flash.sizeInts)
        /\ flash.currentAddress = flash.startAddress + L * BYTES_PER_INT

(***************************************************************************)
(* C5 as amended: the declared word counts add up to length and            *)
(* ceil(length / block) chunks are issued (none for the remainder when     *)
(* length mod block = 0); the words transferred end at start + length * 4, *)
(* that is, the last pointer value written plus four times its chunk's     *)
(* word count equals start + length * 4, while the address variable of the *)
(* operation stops at start + floor(length / block) * block * 4 and        *)
(* reaches start + length * 4 only when length mod block = 0.              *)
(***************************************************************************)
C5_FlashTotals ==
    flash.state = "resolved" =>
        LET L == flash.length4 \div BYTES_PER_INT
            B == flash.sizeInts
        IN /\ SumDeclared(Len(trace)) = L
           /\ Cardinality(RwIdx) = Ceil(L, B)
           /\ (L % B = 0 => Cardinality(RwIdx) = L \div B)
           /\ (L > 0 =>
                 FramePtr(LastOf(RwIdx))
                     + BYTES_PER_INT * DeclaredWords(LastOf(RwIdx))
                   = flash.startAddress + L * BYTES_PER_INT)
           /\ flash.currentAddress
                = flash.startAddress + (L \div B) * B * BYTES_PER_INT

C5_Witness ==
    /\ flash.state = "resolved"
    /\ flash.caller = "standalone"
    /\ Cardinality(RwIdx) >= 2
    /\ flash.length4 % (BYTES_PER_INT * flash.sizeInts) # 0
    /\ flash.sizeInts # T7_FLASH_BLOCK_WRITE_SIZE

(***************************************************************************)
(* C6: for a flash write with any block size, chunk i (from 0) writes the  *)
(* pointer value start + i * blockSize * 4 and carries exactly the words   *)
(* of the source buffer at byte offsets i * blockSize * 4 onwards, as many *)
(* as the word count n_i it declares.                                      *)
(***************************************************************************)
C6_ChunkPayload ==
    \A i \in RwIdx :
         IsFlashWrite(i) =>
           LET c == trace[i].detail.chunk - 1
               first == c * flash.sizeInts * BYTES_PER_INT
               n == DeclaredWords(i)
           IN /\ FramePtr(i) = flash.startAddress + first
              /\ Len(FrameData(i)) = n
              /\ FrameData(i) = [j \in 1..n |-> first + BYTES_PER_INT * (j - 1)]

(***************************************************************************)
(* C7: within one flash operation the chunks are issued in ascending       *)
(* address order, each only after the previous one completed successfully; *)
(* when a chunk fails the operation rejects, nothing more is issued and    *)
(* the failed chunk is not issued again.                                   *)
(***************************************************************************)
C7_ChunkOrder ==
    /\ [](/\ Cardinality(inFlight) <= 1
          /\ \A i, j \in RwIdx :
               i < j => /\ FramePtr(i) < FramePtr(j)
                        /\ trace[i].detail.chunk < trace[j].detail.chunk
          /\ Cardinality(RwIdx) <= flash.completed + 1
          /\ (inFlight # {} => Cardinality(RwIdx) = flash.completed + 1))
    /\ [][/\ (flash.state = "rejected" => trace' = trace)
          /\ (flash.state = "running" /\ flash'.state = "rejected"
                => /\ inFlight' = {}
                   /\ trace' = trace
                   /\ Cardinality(RwIdx) = flash.completed + 1)]_vars

C7_Witness ==
    /\ flash.state = "rejected"
    /\ flash.caller = "standalone"
    /\ flash.completed >= 1
    /\ Len(flash.plan) > Cardinality(RwIdx)

(***************************************************************************)
(* C8: if a chunk of the image write fails with a transport error, the     *)
(* run ends rejected with that error, the image-info write is never        *)
(* started and no reboot request is written.                               *)
(***************************************************************************)
C8_WriteFailureAborts ==
    (\E f \in failed : trace[f].op = "rwMany" /\ trace[f].stage = "writeImage")
      =>
        /\ \A i \in DevIdx :
             /\ trace[i].stage # "writeImageInformation"
             /\ trace[i].op \notin {"write", "close"}
             /\ StageIdx(trace[i].stage) <= StageIdx("writeImage")
        /\ deferred.state # "resolved"
        /\ step > StageIdx("writeImage") + 1
             => deferred = [state |-> "rejected",
                            value |-> ErrorText(TransportErr)]

C8_Witness ==
    /\ phase = "done"
    /\ \E f \in failed :
         /\ trace[f].op = "rwMany"
         /\ trace[f].stage = "writeImage"
         /\ trace[f].detail.chunk >= 2

(***************************************************************************)
(* C9: the percent values handed to the listener during one upgrade never  *)
(* decrease, and on a successful upgrade the last one is exactly 100.      *)
(***************************************************************************)
C9_ProgressMonotonic ==
    /\ \A i, j \in ProgressIdx :
         i < j => Leq(trace[i].value, trace[j].value)
    /\ deferred.state = "resolved"
         => trace[LastOf(ProgressIdx)].value
              = Percent(CHECKPOINT_FIVE_PERCENT)

(***************************************************************************)
(* C10: every percent value handed to the listener lies in [0, 100], and   *)
(* every value streamed while the image is written lies in [30, 85].       *)
(***************************************************************************)
C10_ProgressRange ==
    \A i \in ProgressIdx :
        /\ Leq(Percent(0), trace[i].value)
        /\ Leq(trace[i].value, Percent(100))
        /\ trace[i].src = "scaled"
             => /\ Leq(Percent(CHECKPOINT_TWO_PERCENT), trace[i].value)
                /\ Leq(trace[i].value, Percent(CHECKPOINT_THREE_PERCENT))

(***************************************************************************)
(* C11: while the image-info region is written, an interpolated percent    *)
(* value is handed to the listener for every chunk, and each such value    *)
(* lies in [85, 90].                                                       *)
(***************************************************************************)
C11_InfoProgressStreamed ==
    \A i \in RwIdx :
        trace[i].stage = "writeImageInformation"
          => /\ i > 1
             /\ trace[i - 1].type = "progress"
             /\ trace[i - 1].src = "scaled"
             /\ Leq(Percent(CHECKPOINT_THREE_PERCENT), trace[i - 1].value)
             /\ Leq(trace[i - 1].value, Percent(CHECKPOINT_FOUR_PERCENT))

(***************************************************************************)
(* C12: on every successful upgrade the percent values handed to the       *)
(* listener include each of the five checkpoints 10, 30, 85, 90 and 100.   *)
(***************************************************************************)
SamePercent(a, b) == Leq(a, b) /\ Leq(b, a)

Checkpoints ==
    {CHECKPOINT_ONE_PERCENT, CHECKPOINT_TWO_PERCENT, CHECKPOINT_THREE_PERCENT,
     CHECKPOINT_FOUR_PERCENT, CHECKPOINT_FIVE_PERCENT}

C12_CheckpointsDelivered ==
    deferred.state = "resolved"
      => \A c \in Checkpoints :
           \E i \in ProgressIdx : SamePercent(trace[i].value, Percent(c))

(***************************************************************************)
(* C13: a transport error on the write of the firmware-upgrade request is  *)
(* not fatal: the run is not rejected, and once it has ended the handle    *)
(* has been closed and the enumeration has been polled.                    *)
(***************************************************************************)
RebootWriteFailed == \E f \in failed : trace[f].op = "write"

C13_RebootWriteErrorNotFatal ==
    RebootWriteFailed
      => /\ deferred.state # "rejected"
         /\ phase = "done"
              => /\ OpIdx("close") # {}
                 /\ OpIdx("listAll") # {}

(***************************************************************************)
(* C14: an error reported by the close of the pre-reboot handle is         *)
(* swallowed: the run is not rejected, and once it has ended the           *)
(* enumeration has been polled.                                            *)
(***************************************************************************)
CloseFailed == \E f \in failed : trace[f].op = "close"

C14_CloseErrorSwallowed ==
    CloseFailed
      => /\ deferred.state # "rejected"
         /\ phase = "done" => OpIdx("listAll") # {}

(***************************************************************************)
(* C15: when no enumeration shows the serial, the wait ends after a        *)
(* bounded number of polls: once MaxPolls polls have all come back without *)
(* the serial the wait is over (rejected), and no further poll is          *)
(* scheduled.                                                              *)
(***************************************************************************)
SerialNeverSeen ==
    \A k \in 1..Len(enum.results) :
        /\ ~enum.results[k].err
        /\ ~serialPresent(enum.results[k].serials, bundle.serial)

C15_WaitBounded ==
    (AtStage("waitForEnumeration") /\ Len(enum.results) >= MaxPolls
        /\ SerialNeverSeen)
      => /\ phase # "busy"
         /\ ~enum.timer

(***************************************************************************)
(* C16: a failed open during the wait for re-enumeration is not a pipeline *)
(* error: the step in which an open fails arms the timer of a new poll and *)
(* leaves the promise chain and the outcome of updateFirmware untouched.   *)
(***************************************************************************)
OpenFailsNow == \E i \in failed' \ failed : trace'[i].op = "open"

C16_FailedOpenRetries ==
    [][OpenFailsNow
         => /\ ~enum.timer
            /\ enum'.timer
            /\ inFlight' = {}
            /\ AtStage("waitForEnumeration")' /\ phase' = "busy"
            /\ UNCHANGED <<deferred, chainErr, step, bundle, handles>>]_vars

C16_Witness ==
    \E f \in failed :
        /\ trace[f].op = "open"
        /\ \E j \in OpIdx("listAll") : j > f
        /\ deferred.state = "pending"

(***************************************************************************)
(* C17: during the wait for re-enumeration an open is issued only by a     *)
(* poll whose enumeration result contains the captured serial; it is an    *)
(* open by (LJM_dtT7, the captured connection type, the captured serial);  *)
(* the first open that succeeds puts the new handle in the bundle and ends *)
(* the wait, and no poll or open is issued after it.                       *)
(***************************************************************************)
OpenIssuedNow ==
    /\ Len(trace') = Len(trace) + 1
    /\ trace'[Len(trace')].type = "dev"
    /\ trace'[Len(trace')].op = "open"

OpenedIdx == {j \in OpIdx("open") : j \notin inFlight /\ j \notin failed}

C17_OpenOnlyWhenEnumerated ==
    /\ [][OpenIssuedNow
            => /\ Len(enum'.results) = Len(enum.results) + 1
               /\ LET r == enum'.results[Len(enum'.results)]
                  IN /\ ~r.err
                     /\ bundle.serial \in r.serials]_vars
    /\ [](\A j \in OpIdx("open") :
            /\ trace[j].stage = "waitForEnumeration"
            /\ trace[j].detail.deviceType = "LJM_dtT7"
            /\ trace[j].detail.connectionType = bundle.connectionType
            /\ trace[j].detail.identifier = ToString(bundle.serial))
    /\ [](\A j \in OpenedIdx :
            /\ bundle.device = trace[j].handle
            /\ handles[trace[j].handle] = "open"
            /\ step > StageIdx("waitForEnumeration")
            /\ ~enum.timer
            /\ \A k \in OpIdx("open") \cup OpIdx("listAll") : k <= j)

C17_Witness ==
    /\ \E j \in OpenedIdx : \E f \in failed : trace[f].op = "open" /\ f < j
    /\ bundle.device = NewHandle
    /\ phase = "done"

(***************************************************************************)
(* C18: while the wait for re-enumeration has not ended, a poll is always  *)
(* pending or in flight: every poll that does not end the wait (serial     *)
(* absent, open failed, device list failed) schedules another one.         *)
(***************************************************************************)
PollPendingOrInFlight == enum.timer \/ inFlight # {}

C18_PollingContinues ==
    Busy("waitForEnumeration") => PollPendingOrInFlight

(***************************************************************************)
(* C19: checkNewFirmware resolves exactly when the version read from the   *)
(* device differs from the bundle's version by strictly less than 0.0001;  *)
(* for a difference of 0.0001 or more it rejects with the version-mismatch *)
(* error.                                                                  *)
(***************************************************************************)
VersionAnsweredNow == firmwareVersion = undefined /\ firmwareVersion' # undefined

\* |bundle version - version read|, in units of 0.00001
AbsDif5 ==
    LET dif == bundle.version * 10 - firmwareVersion'
    IN IF dif < 0 THEN -dif ELSE dif

C19_VersionTolerance ==
    [][VersionAnsweredNow
         => /\ (phase' = "start") <=> (AbsDif5 < 10)
            /\ AbsDif5 >= 10
                 => phase' = "rejected" /\ chainErr' = VersionMismatch]_vars

(***************************************************************************)
(* C20: when updateFirmware resolves, the handle handed back is the one    *)
(* opened during re-enumeration and not the one passed in; the handle      *)
(* passed in was closed before the new one was opened; the new handle is   *)
(* open and the pipeline never closed it.                                  *)
(***************************************************************************)
C20_ReopenedHandleReturned ==
    deferred.state = "resolved"
      => /\ deferred.value # OldHandle
         /\ \E o \in OpenedIdx :
              /\ trace[o].handle = deferred.value
              /\ \E c \in OpIdx("close") :
                   /\ trace[c].handle = OldHandle
                   /\ c \notin failed /\ c \notin inFlight
                   /\ c < o
         /\ handles[OldHandle] = "closed"
         /\ handles[deferred.value] = "open"
         /\ \A c \in OpIdx("close") : trace[c].handle # deferred.value

C20_Witness ==
    /\ deferred = [state |-> "resolved", value |-> NewHandle]
    /\ Cardinality(OpIdx("close")) = 1

(***************************************************************************)
(* C21: the error updateFirmware rejects with is the error of the first    *)
(* stage that failed: until it is reported no rejection handler replaces   *)
(* the error travelling down the chain, the rejection carries that error,  *)
(* and the promise is settled once.                                        *)
(***************************************************************************)
C21_FirstErrorSurfaces ==
    /\ [][phase = "rejected" /\ deferred.state = "pending"
            => chainErr' = chainErr]_vars
    /\ [][deferred.state = "pending" /\ deferred'.state = "rejected"
            => deferred'.value = ErrorText(chainErr)]_vars
    /\ [][deferred.state # "pending" => deferred' = deferred]_vars

(***************************************************************************)
(* C22: when loading or parsing the firmware file fails, updateFirmware    *)
(* rejects with the loader's error and nothing is issued to the device     *)
(* handle that was passed in: no read, write, erase, reboot request or     *)
(* close.                                                                  *)
(***************************************************************************)
\* the source could not be read, is too short for a header, or is an http
\* response with a status other than 2xx
LoadFails(f) ==
    f.err \/ headerThrows(f.length) \/ (f.http /\ f.status # HTTP_OK)

C22_LoadFailureNoDeviceEffect ==
    (step > 1 /\ LoadFails(fileSrc))
      => /\ DevIdx = {}
         /\ inFlight = {}
         /\ handles[OldHandle] = "open"
         /\ deferred.state # "resolved"
         /\ step > 2 => deferred.state = "rejected"

(***************************************************************************)
(* C23: readFirmwareFile rejects when the file cannot be read or is        *)
(* shorter than 128 bytes; otherwise it resolves with a bundle whose       *)
(* header fields are those of bytes 0..128 of the file and whose image is  *)
(* exactly bytes 128..end of the file.                                     *)
(***************************************************************************)
ReadFirmwareFileSettles == step = 1 /\ step' = 2

FetchFails(f) == f.http /\ (f.err \/ f.status # HTTP_OK)

C24_FetchErrorRejects ==
    [][(ReadFirmwareFileSettles /\ FetchFails(fileSrc))
         => /\ phase' = "rejected"
            /\ chainErr' = ReadError
            /\ bundle' = NullBundle]_vars

(***************************************************************************)
(* C25-C27: the read-back operations.                                      *)
(***************************************************************************)
\* the words the flash holds in a region of so many pages
RegionWords(v, start, pages) ==
    {FlashWord(v, start + BYTES_PER_INT * k) :
        k \in 0..((pages * T7_FLASH_PAGE_SIZE) \div BYTES_PER_INT - 1)}

AllErased(v) ==
    /\ RegionWords(v, T7_EFAdd_ExtFirmwareImgInfo, HdrPages)
         = {EXPECTED_ZEROED_MEM_VAL}
    /\ RegionWords(v, T7_EFAdd_ExtFirmwareImage, ImgPages)
         = {EXPECTED_ZEROED_MEM_VAL}

\* checkErase has read both regions to the end without a transport error
CheckEraseRan ==
    /\ verify.op = "checkErase"
    /\ verify.pc \in {"end", "hung"}
    /\ failed = {}

\* C25: checkErase resolves only if every word of the image-info region and
\* of the image region reads 0xFFFFFFFF, and once it has read both regions
\* with some word differing it has rejected.
C25_CheckEraseRequiresErased ==
    /\ (verify.op = "checkErase" /\ deferred.state = "resolved")
          => AllErased(verify)
    /\ (CheckEraseRan /\ ~AllErased(verify)) => deferred.state = "rejected"

\* the image region of the flash holds the words of the bundle's image
ImageInFlash(v, b) ==
    \A k \in 0..(b.imageBytes \div BYTES_PER_INT - 1) :
        FlashWord(v, T7_EFAdd_ExtFirmwareImage + BYTES_PER_INT * k)
            = BYTES_PER_INT * k

\* checkImageWrite has read the image region to the end
CheckImageWriteRan ==
    /\ verify.op = "checkImageWrite"
    /\ verify.pc = "end"
    /\ failed = {}

\* C26: checkImageWrite resolves only if the image region read back equals
\* the bundle's image, and has rejected once it has read a region that
\* differs from it.
C26_CheckImageWriteCompares ==
    /\ (verify.op = "checkImageWrite" /\ deferred.state = "resolved")
          => ImageInFlash(verify, bundle)
    /\ (CheckImageWriteRan /\ ~ImageInFlash(verify, bundle))
          => deferred.state = "rejected"

\* writeImage succeeded on a sound flash and the readImage after it resolved
RoundTripDone ==
    /\ verify.op = "roundTrip"
    /\ verify.pc = "end"
    /\ verify.dirty = {}
    /\ deferred.state = "resolved"

\* the first words readImage received from the device, as many as the image
ReadBack == SubSeq(flash.memory, 1, bundle.imageBytes \div BYTES_PER_INT)

\* C27: after writeImage has succeeded, readImage resolves with the words it
\* read from the flash, and these are the words of the written image.
C27_RoundTrip ==
    RoundTripDone =>
        /\ deferred.value = "array"
        /\ ReadBack = [k \in 1..(bundle.imageBytes \div BYTES_PER_INT) |->
                          BYTES_PER_INT * (k - 1)]

(***************************************************************************)
(* C28: once the caller has asked for cancellation, no further call is     *)
(* issued to the device or the driver (no stage, flash chunk or            *)
(* enumeration poll is started), and updateFirmware settles only by        *)
(* failing with a Cancelled error.                                         *)
(***************************************************************************)
IssuedNow == {i \in (Len(trace) + 1)..Len(trace') : trace'[i].type = "dev"}

C28_CancellationObserved ==
    /\ [][cancelRequested => IssuedNow = {}]_vars
    /\ [][(cancelRequested /\ deferred.state = "pending"
             /\ deferred'.state # "pending")
            => (deferred'.state = "rejected"
                  /\ deferred'.value = "Error: Cancelled")]_vars

(***************************************************************************)
(* C29: once injectDevice has run, no step changes any field of the bundle *)
(* other than the device handle (image, header information, version,       *)
(* serial number and connection type stay as they are); the handle is      *)
(* replaced only by a successful open of the re-enumerated device, from    *)
(* the injected handle to the new one, hence at most once, and a run that  *)
(* resolves has replaced it.                                               *)
(***************************************************************************)
AfterInject == step > StageIdx("injectDevice")

DeviceReplaced == AfterInject /\ bundle'.device # bundle.device

C29_OnlyDeviceReplacedOnce ==
    /\ [][AfterInject => [bundle' EXCEPT !.device = bundle.device] = bundle]_vars
    /\ [][DeviceReplaced
            => /\ bundle.device = OldHandle
               /\ bundle'.device = NewHandle
               /\ handles'[NewHandle] = "open"
               /\ step = StageIdx("waitForEnumeration")]_vars
    /\ [](deferred.state = "resolved" => bundle.device = NewHandle)

C29_Witness ==
    /\ deferred.state = "resolved"
    /\ bundle.device = NewHandle
    /\ bundle.serial = TheSerial
    /\ bundle.imageBytes > 0

(***************************************************************************)
(* C30: writeImage on an image whose length is not a multiple of 4 bytes   *)
(* is rejected with the buffer's range error; nothing of such an image,    *)
(* and so not its trailing partial word, is ever sent to the flash, and    *)
(* the upgrade does not resolve.                                           *)
(***************************************************************************)
PartialWord(b) == b.imageBytes % BYTES_PER_INT # 0

WriteImageActs == Starting("writeImage") /\ <<step, phase>>' # <<step, phase>>

ImageWrites == {i \in OpIdx("rwMany") : trace[i].stage = "writeImage"}

EraseIdxOf(name) ==
    {i \in OpIdx("writeMany") :
        /\ trace[i].detail.values[1] = EraseRegion(name).key
        /\ trace[i].detail.values[2] >= EraseRegion(name).startAddress
        /\ trace[i].detail.values[2] < EraseRegion(name).startAddress
                + EraseRegion(name).numPages * T7_FLASH_PAGE_SIZE}

ErasedAll(name) ==
    Cardinality(EraseIdxOf(name) \ (inFlight \cup failed))
        = EraseRegion(name).numPages

C32_InfoErasedBeforeImage ==
    /\ EraseIdxOf("eraseImage") # {} => ErasedAll("eraseImageInformation")
    /\ \A i \in EraseIdxOf("eraseImage"),
          j \in EraseIdxOf("eraseImageInformation") : j < i
    /\ ImageWrites # {}
         => ErasedAll("eraseImage") /\ ErasedAll("eraseImageInformation")

(***************************************************************************)
(* C33: eraseFlash(bundle, base, N, key) issues one erase transaction per  *)
(* page 0..N-1 in ascending order, the one for page p writing (key, base + *)
(* p * pageSize) to the key and erase registers; each is issued only after *)
(* the previous one completed; it issues exactly N when none fails; and    *)
(* when the transaction for a page fails, eraseFlash rejects and issues    *)
(* none for a later page.                                                  *)
(***************************************************************************)
EraseAt(name) == {i \in OpIdx("writeMany") : trace[i].stage = name}

PageOf(name, i) == Cardinality({j \in EraseAt(name) : j < i})

EraseFlashContract(name) ==
    LET r == EraseRegion(name)
        E == EraseAt(name)
    IN /\ \A i \in E :
            /\ trace[i].detail.addresses = <<"T7_MA_EXF_KEY", "T7_MA_EXF_ERASE">>
            /\ trace[i].detail.values
                 = <<r.key, r.startAddress + PageOf(name, i) * T7_FLASH_PAGE_SIZE>>
            /\ i \in (inFlight \cup failed) => \A j \in E : j <= i
       /\ Cardinality(E) <= r.numPages
       /\ (step > StageIdx(name) /\ E \cap failed = {} /\ E # {})
            => Cardinality(E) = r.numPages
       /\ E \cap failed # {}
            => /\ ~erase.active
               /\ phase \in {"rejected", "done"}
               /\ deferred.state # "resolved"

C33_EraseFlash == \A name \in EraseStages : EraseFlashContract(name)

C33_Witness ==
    /\ Cardinality(EraseAt("eraseImage")) = 1
    /\ EraseAt("eraseImage") \subseteq failed
    /\ ImgPages > 1
    /\ deferred.state = "rejected"

(***************************************************************************)
(* C34: every compound frame of a flash operation addresses the pointer    *)
(* register first, then the key register when a key is supplied (and only  *)
(* then), then the data register, which it reads or writes for a number of *)
(* words no greater than the block size.                                   *)
(***************************************************************************)
PointerRegisters == {"T7_MA_EXF_pREAD", "T7_MA_EXF_pWRITE"}

DataRegisters == {"T7_MA_EXF_READ", "T7_MA_EXF_WRITE"}

FrameLayout(f, key) ==
    /\ f.addresses[1] \in PointerRegisters
    /\ f.directions[1] = "LJM_WRITE"
    /\ IF key = undefined
       THEN Len(f.addresses) = 2
       ELSE /\ Len(f.addresses) = 3
            /\ f.addresses[2] = "T7_MA_EXF_KEY"
            /\ f.directions[2] = "LJM_WRITE"
    /\ f.addresses[Len(f.addresses)] \in DataRegisters

C34_FrameLayout ==
    \A i \in RwIdx :
        /\ FrameLayout(FrameOf(i), flash.key)
        /\ DeclaredWords(i) <= flash.sizeInts

(***************************************************************************)
(* C35: a fixed checkpoint is handed to the listener only when the step    *)
(* before it has succeeded and the step after it has issued nothing to the *)
(* device: 10 when the compatibility check has passed and nothing has been *)
(* erased; 30 when both regions are erased and no image chunk has been     *)
(* written; 90 when the image-info write has resolved and no reboot has    *)
(* been requested; 100 when checkNewFirmware has accepted the version read *)
(* and updateFirmware is still pending.  updateFirmware resolves only      *)
(* after the 100.                                                          *)
(***************************************************************************)
CheckpointEmitted(v) ==
    trace' = Append(trace, ProgressEvent([num |-> v, den |-> 1], "checkpoint"))

StageWrites(name) == {i \in RwIdx : trace[i].stage = name}

InfoWritten ==
    /\ flash.caller = "writeImageInformation"
    /\ flash.state = "resolved"
    /\ StageWrites("writeImageInformation") # {}
    /\ StageWrites("writeImageInformation") \cap (failed \cup inFlight) = {}

VersionAccepted ==
    /\ OpIdx("read") # {}
    /\ OpIdx("read") \cap (failed \cup inFlight) = {}
    /\ firmwareVersion # undefined
    /\ ~versionDiffers(bundle.version, firmwareVersion)

CheckpointsIn(v) ==
    {i \in ProgressIdx : trace[i].src = "checkpoint"
                           /\ trace[i].value = [num |-> v, den |-> 1]}

C35_CheckpointsAfterSuccess ==
    /\ [][CheckpointEmitted(CHECKPOINT_ONE_PERCENT)
            => /\ BundleCompatible
               /\ DevIdx = OpIdx("readSync")]_vars
    /\ [][CheckpointEmitted(CHECKPOINT_TWO_PERCENT)
            => /\ ErasedAll("eraseImage")
               /\ ErasedAll("eraseImageInformation")
               /\ RwIdx = {}]_vars
    /\ [][CheckpointEmitted(CHECKPOINT_FOUR_PERCENT)
            => /\ InfoWritten
               /\ OpIdx("write") = {}]_vars
    /\ [][CheckpointEmitted(CHECKPOINT_FIVE_PERCENT)
            => /\ VersionAccepted
               /\ deferred.state = "pending"]_vars
    /\ [](deferred.state = "resolved"
            => CheckpointsIn(CHECKPOINT_FIVE_PERCENT) # {})
    /\ [](\A v \in {CHECKPOINT_ONE_PERCENT, CHECKPOINT_TWO_PERCENT,
                    CHECKPOINT_FOUR_PERCENT, CHECKPOINT_FIVE_PERCENT} :
             Cardinality(CheckpointsIn(v)) <= 1)

C35_Witness ==
    /\ deferred.state = "resolved"
    /\ \A v \in {CHECKPOINT_ONE_PERCENT, CHECKPOINT_TWO_PERCENT,
                 CHECKPOINT_FOUR_PERCENT, CHECKPOINT_FIVE_PERCENT} :
          CheckpointsIn(v) # {}

(***************************************************************************)
(* C36: while writeImage(min, max) writes an image of L words in blocks of *)
(* B, each chunk's transaction is preceded by exactly one scaled progress  *)
(* value, and the value before the k-th chunk is                           *)
(* min + (max - min) / L * (k * B), the final partial chunk counting for a *)
(* full B; no other scaled value is reported.                              *)
(***************************************************************************)
ScaledIdx == {i \in ProgressIdx : trace[i].src = "scaled"}

\* v = min + (max - min) / (imageBytes / 4) * n, cross-multiplied
IsScaledFor(v, imageBytes, n) ==
    v.num * imageBytes
      = v.den * (CHECKPOINT_TWO_PERCENT * imageBytes
                   + (CHECKPOINT_THREE_PERCENT - CHECKPOINT_TWO_PERCENT)
                       * BYTES_PER_INT * n)

C36_ChunkProgress ==
    /\ \A i \in ImageWrites :
         /\ i - 1 \in ScaledIdx
         /\ IsScaledFor(trace[i - 1].value, bundle.imageBytes,
                        trace[i].detail.chunk * T7_FLASH_BLOCK_WRITE_SIZE)
    /\ Cardinality(ScaledIdx) = Cardinality(ImageWrites)

C36_Witness ==
    /\ bundle.imageBytes
         = BYTES_PER_INT * (T7_FLASH_BLOCK_WRITE_SIZE + 1)
    /\ Cardinality(ImageWrites) = 2
    /\ Cardinality(ScaledIdx) = 2
    /\ deferred.state = "resolved"

(***************************************************************************)
(* C37: shouldUpdateProgressBar is true only while the flash operation of  *)
(* writeImage is in flight: false before writeImage starts and false once  *)
(* writeImage has settled, resolved or rejected.                           *)
(***************************************************************************)
C37_FlagOnlyDuringWriteImage ==
    shouldUpdateProgressBar => Busy("writeImage")

(***************************************************************************)
(* C38: when a stage before the reboot request fails, no reboot request is *)
(* written and no close is issued in that run: from the failure on nothing *)
(* is issued to the device and no handle changes state (forceClose, which  *)
(* runs on the error path, closes nothing), so the handle passed in stays  *)
(* open.                                                                   *)
(***************************************************************************)
FailsBeforeReboot ==
    /\ phase # "rejected"
    /\ phase' = "rejected"
    /\ step < StageIdx("restartAndUpgrade")

EarlyFailure ==
    /\ phase \in {"rejected", "done"}
    /\ OpIdx("write") = {}

C38_EarlyFailureLeavesHandleOpen ==
    /\ [][FailsBeforeReboot
            => OpIdx("write") = {} /\ OpIdx("close") = {}]_vars
    /\ [][phase = "rejected" => (IssuedNow = {} /\ handles' = handles)]_vars
    /\ [](EarlyFailure
            => /\ OpIdx("close") = {}
               /\ handles[OldHandle] = "open"
               /\ deferred.state # "resolved")

C38_Witness ==
    /\ phase = "done"
    /\ deferred.state = "rejected"
    /\ OpIdx("writeMany") # {}
    /\ OpIdx("write") = {}
    /\ OpIdx("close") = {}
    /\ handles[OldHandle] = "open"

(***************************************************************************)
(* C39: a checkpoint (a progress update or a status text) handed to the    *)
(* listener suspends the chain: the stage after it is not started, nothing *)
(* is issued to the device and updateFirmware stays pending until the      *)
(* listener invokes the callback it was given, and that invocation is the  *)
(* only step that can follow.                                              *)
(***************************************************************************)
HandedToListener ==
    /\ Len(trace') = Len(trace) + 1
    /\ \/ /\ trace'[Len(trace')].type = "progress"
          /\ trace'[Len(trace')].src = "checkpoint"
       \/ trace'[Len(trace')].type = "status"

C39_WaitsForListener ==
    /\ [][HandedToListener => (phase' = "listener" /\ step' = step)]_vars
    /\ [][phase = "listener"
            => /\ step' = step + 1
               /\ phase' = "start"
               /\ IssuedNow = {}
               /\ trace' = trace
               /\ deferred' = deferred]_vars
    /\ [](phase = "listener"
            => deferred.state = "pending" /\ inFlight = {})

C39_Witness ==
    /\ phase = "listener"
    /\ AtStage("updateProgress30")
    /\ OpIdx("writeMany") # {}
    /\ RwIdx = {}

(***************************************************************************)
(* C31: with two overlapping updateFirmware invocations, every progress    *)
(* value a listener receives was produced by the pipeline that listener    *)
(* was passed to, and a streamed value is that pipeline's own              *)
(* offset + scale * counter: 30 + 55 / L * n while it writes its image of  *)
(* L words, 85 + 5 / 32 * n while it writes its image information.         *)
(***************************************************************************)
OwnScaling(e) ==
    IF e.stage = "writing"
    THEN [num |-> BYTES_PER_INT
                    * (CHECKPOINT_THREE_PERCENT - CHECKPOINT_TWO_PERCENT),
          den |-> pipes[e.pipeline].imageBytes]
    ELSE [num |-> BYTES_PER_INT
                    * (CHECKPOINT_FOUR_PERCENT - CHECKPOINT_THREE_PERCENT),
          den |-> HEADER_SIZE]

OwnOffset(e) ==
    IF e.stage = "writing" THEN CHECKPOINT_TWO_PERCENT
    ELSE CHECKPOINT_THREE_PERCENT

C31_OwnProgressContext ==
    \A i \in ProgressIdx :
        /\ trace[i].listener = ListenerOf(trace[i].pipeline)
        /\ trace[i].src = "scaled"
             => trace[i].value = ScaledValue(OwnScaling(trace[i]),
                                             OwnOffset(trace[i]),
                                             trace[i].counter)

====
